---- MODULE Spec2Model ----
(***************************************************************************)
(* State-machine model of the widget library: the auto-init registry and   *)
(* scan (packages/mdc-auto-init/index.ts), the MDCChipSet and MDCDataTable *)
(* components, the MDCSelectFoundation and MDCChipFoundation, and the      *)
(* toolbar, ripple and menu foundations as their unit tests show them.     *)
(* Each widget has its own specification; the variables of the widgets a   *)
(* specification does not exercise stay at their idle values.              *)
(***************************************************************************)
EXTENDS Integers, Sequences, FiniteSets, TLC

VARIABLES
    registry,       \* auto-init: the module-level name -> constructor map
    nodeAttr,       \* auto-init: each DOM node's data-mdc-auto-init attribute
    nodeProps,      \* auto-init: the component properties defined on each node
    attachCount,    \* auto-init: Constructor.attachTo calls per node and name
    aiLast,         \* auto-init: what the last call did (throw, warn, events)
    chips_,         \* chip set: MDCChipSet.chips_, the chips the set owns
    idCounter,      \* chip set: the module-level id counter
    chipObjs,       \* chip set: number of MDCChip objects the factory made
    chipDestroyed,  \* chip set: destroy() calls received by each MDCChip
    chipDom,        \* chip set: each chip's selected class and aria-checked
    csListeners,    \* chip set: event types the set listens to on its root
    csDestroys,     \* chip set: destroy() calls on the set
    csFoundationDestroys, \* chip set: destroy() calls on its foundation
    csLast,         \* chip set: the last operation and the handler it invoked
    headerRowCheckbox,  \* data table: MDCDataTable.headerRowCheckbox
    rowCheckboxList,    \* data table: MDCDataTable.rowCheckboxList
    checkboxObjs,       \* data table: number of MDCCheckbox objects made
    checkboxDestroyed,  \* data table: destroy() calls received by each checkbox
    dtRows,             \* data table: rows in the DOM, and whether they carry checkboxes
    dtListeners,        \* data table: listeners on the header row and the content
    dtDestroys,         \* data table: destroy() calls on the table
    dtFoundationDestroys, \* data table: destroy() calls on its foundation
    dtLast,             \* data table: the last operation, its handler, its throw
    selProvided,    \* select: the adapter methods given to the constructor
    selFoundationMap, \* select: the sub-foundations given (leadingIcon, helperText)
    selHasOutline,  \* select: whether the markup has a notched outline
    selClasses,     \* select: the classes of the root element
    selMenuOpen,    \* select: whether the menu is open
    selIndex,       \* select: selectedIndex of the control (-1: none)
    selLast,        \* select: the last call, its argument and the calls it made
    cfProvided,     \* chip: the adapter methods given to the constructor
    cfMarkup,       \* chip: which of leading icon and checkmark the chip has
    cfClasses,      \* chip: the classes of the root element
    cfShouldRemove, \* chip: shouldRemoveOnTrailingIconClick_
    cfFrames,       \* chip: the animation-frame callbacks requested, not yet run
    cfDestroyed,    \* chip: whether destroy() was called
    cfLast,         \* chip: the last call, its event and the calls it made
    tbHandlers,     \* toolbar: the handlers registered with the adapter
    tbLatch,        \* toolbar: the debounce latch of the scroll and of the resize path
    tbFrames,       \* toolbar: the animation-frame callbacks requested, not yet run
    tbBurst,        \* toolbar: triggers of each kind since its callback last ran
    tbRuns,         \* toolbar: animation frames run
    tbLast,         \* toolbar: the last operation
    rpActivated,    \* ripple: activationState_.isActivated
    rpActivationEvent, \* ripple: the type of the event that activated it
    rpFrames,       \* ripple: the animation-frame callbacks requested, not yet run
    rpCycle,        \* ripple: activations accepted so far
    rpActivationUX, \* ripple: runs of the activation UX, per activation
    rpDeactivationUX, \* ripple: runs of the deactivation UX, per activation
    rpSeen,         \* ripple: the event types handled since the last activation
    rpRepeat,       \* ripple: whether an event type came twice within one activation
    rpLast,         \* ripple: the last operation and what it requested
    smNumItems,     \* simple menu: the number of items of the menu
    smFocused,      \* simple menu: index of the focused item (NoItem: the menu itself)
    smLast,         \* simple menu: the last key and what its handler did
    smSel,          \* simple menu: the queued selection and the last selecting event
    mnGroupOf,      \* menu: the selection group each list item is in (0: none)
    mnSelected,     \* menu: the items carrying the selected class and aria-selected
    mnChecked,      \* menu: whether the checkbox of the checkbox item is checked
    mnTimers,       \* menu: the items whose close-animation timeout is pending
    mnDestroyed,    \* menu: whether destroy() was called
    mnLast,         \* menu: the last operation and the adapter calls it made
    tsConfig,       \* toolbar styles: the classes of the markup and its heights
    tsExecutedLastChange, \* toolbar styles: executedLastChange_
    tsClasses,      \* toolbar styles: the state classes of the root element
    tsLast,         \* toolbar styles: the last scroll frame and what it reported
    ct              \* construction: the component a constructor call is building

aiVars == <<registry, nodeAttr, nodeProps, attachCount, aiLast>>

csVars == <<chips_, idCounter, chipObjs, chipDestroyed, chipDom, csListeners, csDestroys,
            csFoundationDestroys, csLast>>

dtVars == <<headerRowCheckbox, rowCheckboxList, checkboxObjs, checkboxDestroyed,
            dtRows, dtListeners, dtDestroys, dtFoundationDestroys, dtLast>>

selVars == <<selProvided, selFoundationMap, selHasOutline, selClasses,
             selMenuOpen, selIndex, selLast>>

cfVars == <<cfProvided, cfMarkup, cfClasses, cfShouldRemove, cfFrames,
            cfDestroyed, cfLast>>

tbVars == <<tbHandlers, tbLatch, tbFrames, tbBurst, tbRuns, tbLast>>

rpVars == <<rpActivated, rpActivationEvent, rpFrames, rpCycle, rpActivationUX,
            rpDeactivationUX, rpSeen, rpRepeat, rpLast>>

smVars == <<smNumItems, smFocused, smLast, smSel>>

mnVars == <<mnGroupOf, mnSelected, mnChecked, mnTimers, mnDestroyed, mnLast>>

tsVars == <<tsConfig, tsExecutedLastChange, tsClasses, tsLast>>

ctVars == <<ct>>

vars == <<aiVars, csVars, dtVars, selVars, cfVars, tbVars, rpVars, smVars, mnVars, tsVars,
          ctVars>>

\* The variables each widget leaves alone.
notAi == <<csVars, dtVars, selVars, cfVars, tbVars, rpVars, smVars, mnVars, tsVars,
            ctVars>>
notCs == <<aiVars, dtVars, selVars, cfVars, tbVars, rpVars, smVars, mnVars, tsVars,
            ctVars>>
notDt == <<aiVars, csVars, selVars, cfVars, tbVars, rpVars, smVars, mnVars, tsVars,
            ctVars>>
notSel == <<aiVars, csVars, dtVars, cfVars, tbVars, rpVars, smVars, mnVars, tsVars,
            ctVars>>
notCf == <<aiVars, csVars, dtVars, selVars, tbVars, rpVars, smVars, mnVars, tsVars,
            ctVars>>
notTb == <<aiVars, csVars, dtVars, selVars, cfVars, rpVars, smVars, mnVars, tsVars,
            ctVars>>
notRp == <<aiVars, csVars, dtVars, selVars, cfVars, tbVars, smVars, mnVars, tsVars,
            ctVars>>
notSm == <<aiVars, csVars, dtVars, selVars, cfVars, tbVars, rpVars, mnVars, tsVars,
            ctVars>>
notMn == <<aiVars, csVars, dtVars, selVars, cfVars, tbVars, rpVars, smVars, tsVars,
            ctVars>>
notTs == <<aiVars, csVars, dtVars, selVars, cfVars, tbVars, rpVars, smVars, mnVars,
            ctVars>>
notCt == <<aiVars, csVars, dtVars, selVars, cfVars, tbVars, rpVars, smVars, mnVars,
           tsVars>>

(***************************************************************************)
(* Helpers on sequences.                                                   *)
(***************************************************************************)
Range(s) == {s[i] : i \in 1..Len(s)}

Count(s, x) == Cardinality({i \in 1..Len(s) : s[i] = x})

(***************************************************************************)
(*                     mdc-auto-init (index.ts)                            *)
(***************************************************************************)

\* Number of DOM nodes of the document, in document order 1..NumNodes.
NumNodes == 2

\* attachTo calls per node and name after which the model stops scanning; the
\* code never comes near it (it attaches at most once).
MaxAttach == 2

Nodes == 1..NumNodes

\* Names one can register, and a key every object inherits from
\* Object.prototype (registry is a plain {} literal).
RegNames == {"MDCFoo", "MDCBar"}
ProtoKeys == {"toString"}
Names == RegNames \cup ProtoKeys

\* A node without the attribute is not matched by the selector.
NoAttr == "<none>"
AttrValues == Names \cup {"", NoAttr}

\* Constructors (classes with a static attachTo), and a value that is no function.
Ctors == {"CtorA", "CtorB"}
NotAFunction == "notAFunction"
Absent == "absent"
Undefined == "undefined"
ProtoFn == "Object.prototype.fn"
NoComponent == [ctor |-> "none", node |-> 0, serial |-> 0]

\* registry[name]: an own mapping, else what the prototype chain gives.
RegistryGet(reg, name) ==
    IF reg[name] # Absent THEN reg[name]
    ELSE IF name \in ProtoKeys THEN ProtoFn
    ELSE Undefined

\* typeof v === 'function'
IsFunction(v) == v \in Ctors \cup {ProtoFn}

\* HasOwnProperty that never finds the property.
MutHasOwnProperty(props, n, name) == FALSE

\* Object.getOwnPropertyDescriptor(node, ctorName) is truthy
HasOwnProperty(props, n, name) == props[n][name] # NoComponent

\* ScanNode with the already-initialized check made before the registry lookup.
MutScanNodeTagFirst(st, n) ==
    LET ctorName == nodeAttr[n] IN
    IF ctorName = NoAttr THEN st
    ELSE IF ctorName = "" THEN [st EXCEPT !.threw = "NameMissing", !.threwAt = n]
    ELSE IF HasOwnProperty(st.props, n, ctorName)
    THEN [st EXCEPT !.warned = Append(@, n),
                      !.trace = Append(@, <<"warn", n>>)]
    ELSE
      LET Constructor == RegistryGet(registry, ctorName) IN
      IF ~IsFunction(Constructor)
      THEN [st EXCEPT !.threw = "NotInRegistry", !.threwAt = n]
      ELSE IF Constructor \notin Ctors
      THEN [st EXCEPT !.threw = "TypeError", !.threwAt = n]
      ELSE
        LET component == [ctor   |-> Constructor,
                          node   |-> n,
                          serial |-> st.count[n][ctorName] + 1] IN
        [st EXCEPT !.props[n][ctorName] = component,
                   !.count[n][ctorName] = @ + 1,
                   !.attached = Append(@, n),
                   !.components = Append(@, component),
                   !.trace = Append(@, <<"attachTo", n>>)]

\* The body of the for loop of mdcAutoInit for node n; st carries the node
\* properties, the attachTo counts and what the scan did so far.
ScanNode(st, n) ==
    LET ctorName == nodeAttr[n] IN
    IF ctorName = NoAttr THEN st
    ELSE IF ctorName = "" THEN [st EXCEPT !.threw = "NameMissing", !.threwAt = n]
    ELSE
      LET Constructor == RegistryGet(registry, ctorName) IN
      IF ~IsFunction(Constructor)
      THEN [st EXCEPT !.threw = "NotInRegistry", !.threwAt = n]
      ELSE IF HasOwnProperty(st.props, n, ctorName)
      THEN [st EXCEPT !.warned = Append(@, n),
                      !.trace = Append(@, <<"warn", n>>)]
      ELSE IF Constructor \notin Ctors
      THEN [st EXCEPT !.threw = "TypeError", !.threwAt = n]
      ELSE
        LET component == [ctor   |-> Constructor,
                          node   |-> n,
                          serial |-> st.count[n][ctorName] + 1] IN
        [st EXCEPT !.props[n][ctorName] = component,
                   !.count[n][ctorName] = @ + 1,
                   !.attached = Append(@, n),
                   !.components = Append(@, component),
                   !.trace = Append(@, <<"attachTo", n>>)]

\* A scan that undoes what it did to the earlier nodes when a node throws.
RECURSIVE MutScanFromRollsBack(_, _)
MutScanFromRollsBack(st, i) ==
    IF i > NumNodes THEN st
    ELSE LET r == ScanNode(st, i) IN
         IF r.threw # "none"
         THEN [r EXCEPT !.props = nodeProps, !.count = attachCount]
         ELSE MutScanFromRollsBack(r, i + 1)

RECURSIVE ScanFrom(_, _)
ScanFrom(st, i) ==
    IF i > NumNodes \/ st.threw # "none" THEN st
    ELSE ScanFrom(ScanNode(st, i), i + 1)

ScanResult ==
    ScanFrom([props |-> nodeProps, count |-> attachCount, warned |-> <<>>,
              attached |-> <<>>, components |-> <<>>, trace |-> <<>>,
              threw |-> "none", threwAt |-> 0], 1)

AiRecord(op, arg, threw, threwAt, warned, attached, returned, endEvents, trace) ==
    [op |-> op, arg |-> arg, threw |-> threw, threwAt |-> threwAt,
     warned |-> warned, attached |-> attached, returned |-> returned,
     endEvents |-> endEvents, trace |-> trace]

\* A scan that emits the end event after each attachTo, inside the loop.
MutEmitInLoop(r) ==
    [r EXCEPT !.trace = [i \in 1..(2 * Len(@)) |->
                            IF i % 2 = 1 THEN @[(i + 1) \div 2]
                            ELSE <<"emit", 0>>]]

\* emit('MDCAutoInit:End', {}) after the loop, which a throw never reaches.
EmitEnd(r) ==
    IF r.threw = "none"
    THEN [r EXCEPT !.trace = Append(@, <<"emit", 0>>)]
    ELSE r

\* mdcAutoInit(document, warn)
MdcAutoInit ==
    /\ \A n \in Nodes : \A c \in Names : attachCount[n][c] < MaxAttach
    /\ LET r == EmitEnd(ScanResult) IN
       /\ nodeProps' = r.props
       /\ attachCount' = r.count
       /\ aiLast' = AiRecord("mdcAutoInit", "", r.threw, r.threwAt, r.warned,
                             r.attached,
                             IF r.threw = "none" THEN r.components ELSE <<>>,
                             Count(r.trace, <<"emit", 0>>),
                             r.trace)
    /\ UNCHANGED <<registry, nodeAttr, notAi>>

\* What a register call was given, and registryValue, the value registry[name]
\* had when it was called.
RegisterArg(componentName, Constructor) ==
    [name |-> componentName, ctor |-> Constructor,
     was |-> RegistryGet(registry, componentName)]

\* A register that assigns before it looks at the constructor.
MutRegisterAssignFirst(componentName, Constructor) ==
    /\ registry' = [registry EXCEPT ![componentName] = Constructor]
    /\ aiLast' = AiRecord("register", RegisterArg(componentName, Constructor),
                          IF IsFunction(Constructor) THEN "none" ELSE "InvalidCtor",
                          0,
                          IF IsFunction(Constructor)
                             /\ RegistryGet(registry, componentName) # Undefined
                          THEN <<componentName>> ELSE <<>>,
                          <<>>, <<>>, 0, <<>>)
    /\ UNCHANGED <<nodeAttr, nodeProps, attachCount, notAi>>

\* A register that warns and keeps the mapping the name already has.
MutRegisterKeepsFirst(componentName, Constructor) ==
    /\ IF ~IsFunction(Constructor)
       THEN /\ aiLast' = AiRecord("register", RegisterArg(componentName, Constructor),
                                  "InvalidCtor", 0, <<>>, <<>>, <<>>, 0, <<>>)
            /\ UNCHANGED registry
       ELSE /\ registry' = IF registry[componentName] # Absent THEN registry
                           ELSE [registry EXCEPT ![componentName] = Constructor]
            /\ aiLast' = AiRecord("register", RegisterArg(componentName, Constructor),
                  "none", 0,
                  IF RegistryGet(registry, componentName) # Undefined
                  THEN <<componentName>> ELSE <<>>,
                  <<>>, <<>>, 0, <<>>)
    /\ UNCHANGED <<nodeAttr, nodeProps, attachCount, notAi>>

\* mdcAutoInit.register(componentName, Constructor, warn)
Register(componentName, Constructor) ==
    /\ IF ~IsFunction(Constructor)
       THEN /\ aiLast' = AiRecord("register", RegisterArg(componentName, Constructor),
                                  "InvalidCtor", 0, <<>>, <<>>, <<>>, 0, <<>>)
            /\ UNCHANGED registry
       ELSE /\ registry' = [registry EXCEPT ![componentName] = Constructor]
            /\ aiLast' = AiRecord("register", RegisterArg(componentName, Constructor),
                  "none", 0,
                  IF RegistryGet(registry, componentName) # Undefined
                  THEN <<componentName>> ELSE <<>>,
                  <<>>, <<>>, 0, <<>>)
    /\ UNCHANGED <<nodeAttr, nodeProps, attachCount, notAi>>

\* A delete that empties the registry.
MutDeleteEverything(reg, componentName) == [k \in Names |-> Absent]

\* delete registry[componentName]
DeleteMapping(reg, componentName) == [reg EXCEPT ![componentName] = Absent]

\* Object.keys(registry): the names with a mapping of their own.
OwnKeys(reg) == {k \in Names : reg[k] # Absent}

\* keys.forEach(this.deregister, this)
RECURSIVE DeregisterEach(_, _)
DeregisterEach(reg, keys) ==
    IF keys = {} THEN reg
    ELSE LET k == CHOOSE k \in keys : TRUE IN
         DeregisterEach(DeleteMapping(reg, k), keys \ {k})

\* mdcAutoInit.deregister(componentName)
Deregister(componentName) ==
    /\ registry' = DeleteMapping(registry, componentName)
    /\ aiLast' = AiRecord("deregister", componentName, "none", 0,
                          <<>>, <<>>, <<>>, 0, <<>>)
    /\ UNCHANGED <<nodeAttr, nodeProps, attachCount, notAi>>

\* mdcAutoInit.deregisterAll()
DeregisterAll ==
    /\ registry' = DeregisterEach(registry, OwnKeys(registry))
    /\ aiLast' = AiRecord("deregisterAll", "", "none", 0, <<>>, <<>>, <<>>, 0, <<>>)
    /\ UNCHANGED <<nodeAttr, nodeProps, attachCount, notAi>>

AiIdle ==
    /\ registry = [k \in Names |-> Absent]
    /\ nodeProps = [n \in Nodes |-> [k \in Names |-> NoComponent]]
    /\ attachCount = [n \in Nodes |-> [k \in Names |-> 0]]
    /\ aiLast = AiRecord("init", "", "none", 0, <<>>, <<>>, <<>>, 0, <<>>)

\* No document is scanned.
AiUnused == AiIdle /\ nodeAttr = [n \in Nodes |-> NoAttr]

\* The module is loaded (empty registry) and the document holds some nodes.
AiInit ==
    /\ AiIdle
    /\ nodeAttr \in [Nodes -> AttrValues]

AiNext ==
    \/ MdcAutoInit
    \/ \E name \in Names : \E C \in Ctors \cup {NotAFunction} : Register(name, C)
    \/ \E name \in Names : Deregister(name)
    \/ DeregisterAll

(***************************************************************************)
(*                     MDCChipSet (chip-set component)                     *)
(***************************************************************************)

\* MDCChip objects the chip factory may make in one run of the model.
MaxChips == 3

\* Chip elements under the root when the set is constructed, at most.
MaxInitChips == 2

\* destroy() calls on one component in one run of the model.
MaxDestroys == 2

ChipObjs == 1..MaxChips

\* Ids of chip elements: none, one set by the page, and one that reads like a
\* generated id.
NoId == <<"", 0>>
AutoId(k) == <<"mdc-chip-", k>>
ElIds == {NoId, <<"c", 1>>, AutoId(1)}
ChipIds == (ElIds \ {NoId}) \cup {AutoId(k) : k \in 1..MaxChips}

INTERACTION_EVENT == "MDCChip:interaction"
SELECTION_EVENT == "MDCChip:selection"
REMOVAL_EVENT == "MDCChip:removal"
ChipEvents == {INTERACTION_EVENT, SELECTION_EVENT, REMOVAL_EVENT}

\* el.id = el.id || `mdc-chip-${++idCounter}`; chipFactory(el)
\* st holds the chip list, the id counter and the number of chip objects.
MakeChip(st, elId) ==
    LET counter == IF elId = NoId THEN st.idCounter + 1 ELSE st.idCounter
        id == IF elId = NoId THEN AutoId(counter) ELSE elId
        obj == st.chipObjs + 1 IN
    [chips |-> Append(st.chips, [obj |-> obj, id |-> id]),
     idCounter |-> counter,
     chipObjs |-> obj]

\* instantiateChips_: a chip for every chip element, in document order.
RECURSIVE InstantiateChips(_, _)
InstantiateChips(st, elIds) ==
    IF elIds = <<>> THEN st
    ELSE InstantiateChips(MakeChip(st, Head(elIds)), Tail(elIds))

\* findChipIndex_: the first index whose chip has the id, or -1 (0-based in the
\* code, 1-based here).
FindChipIndex(chips, chipId) ==
    LET hits == {i \in 1..Len(chips) : chips[i].id = chipId} IN
    IF hits = {} THEN -1 ELSE CHOOSE i \in hits : \A j \in hits : i <= j

\* Array.prototype.splice(index, 1)
Splice1(s, index) == [i \in 1..(Len(s) - 1) |-> IF i < index THEN s[i] ELSE s[i + 1]]

\* A forEach that misses the last chip of the list.
MutDestroyAllButLast(destroyed, chips) ==
    [o \in ChipObjs |->
       destroyed[o] + Count([i \in 1..(Len(chips) - 1) |-> chips[i].obj], o)]

\* this.chips_.forEach((chip) => chip.destroy())
DestroyAll(destroyed, chips) ==
    [o \in ChipObjs |-> destroyed[o] + Count([i \in 1..Len(chips) |-> chips[i].obj], o)]

\* The last operation on the set: the event it handled or emitted, the
\* handler that ran and the chip id the event or the call carried, and for
\* adapter.setSelected its second argument.
\* What the page shows of a chip: whether its root carries the selected class
\* and the aria-checked attribute of its primary action.  Chip elements come
\* unselected.
ChipMarkups == {[selected |-> FALSE, ariaChecked |-> "false"]}
NoChipDom == [selected |-> FALSE, ariaChecked |-> "absent"]

\* MDCChipFoundation.setSelected(selected) as seen on the chip's element: the
\* selected class is added or removed, nothing else of the element is written.
ChipSetSelected(dom, selected) == [dom EXCEPT !.selected = selected]

\* chip.selected = selected: the setter of MDCChip hands the value to the
\* chip's foundation.
ChipSelectedSetter(dom, selected) == ChipSetSelected(dom, selected)

CsRecord(op, evt, handled, chipId, selected) ==
    [op |-> op, evt |-> evt, handled |-> handled, chipId |-> chipId,
     selected |-> selected]

\* A chip set was constructed on the page.
CsConstructed == csLast.op # "none"

\* addChip(chipEl)
AddChip(elId) ==
    /\ CsConstructed
    /\ chipObjs < MaxChips
    /\ LET st == MakeChip([chips |-> chips_, idCounter |-> idCounter,
                           chipObjs |-> chipObjs], elId) IN
       /\ chips_' = st.chips
       /\ idCounter' = st.idCounter
       /\ chipObjs' = st.chipObjs
       /\ \E markup \in ChipMarkups :
             chipDom' = [chipDom EXCEPT ![st.chipObjs] = markup]
    /\ csLast' = CsRecord("addChip", "", "none", NoId, FALSE)
    /\ UNCHANGED <<chipDestroyed, csListeners, csDestroys, csFoundationDestroys, notCs>>

\* A removeChip that destroys the chip and keeps it in the list.
MutRemoveChipNoSplice(chipId) ==
    LET index == FindChipIndex(chips_, chipId) IN
    IF index >= 1
    THEN /\ chipDestroyed' = [chipDestroyed EXCEPT ![chips_[index].obj] = @ + 1]
         /\ UNCHANGED chips_
    ELSE UNCHANGED <<chipDestroyed, chips_>>

\* adapter.removeChip(chipId)
RemoveChip(chipId) ==
    LET index == FindChipIndex(chips_, chipId) IN
    IF index >= 1
    THEN /\ chipDestroyed' = [chipDestroyed EXCEPT ![chips_[index].obj] = @ + 1]
         /\ chips_' = Splice1(chips_, index)
    ELSE UNCHANGED <<chipDestroyed, chips_>>

\* foundation.handleChipRemoval(chipId): asks the adapter to remove the chip.
FoundationHandleChipRemoval(chipId) == RemoveChip(chipId)

\* An MDCChip event of the given type and chip id reaches the root element.
\* Listened to, it runs the set's handler and the foundation method behind it.
DispatchChipEvent(type, chipId) ==
    /\ CsConstructed
    /\ IF type \in csListeners
       THEN /\ csLast' = CsRecord("dispatch", type,
                  CASE type = INTERACTION_EVENT -> "handleChipInteraction"
                    [] type = SELECTION_EVENT -> "handleChipSelection"
                    [] type = REMOVAL_EVENT -> "handleChipRemoval",
                  chipId, FALSE)
            /\ IF type = REMOVAL_EVENT
               THEN FoundationHandleChipRemoval(chipId)
               ELSE UNCHANGED <<chipDestroyed, chips_>>
       ELSE /\ csLast' = CsRecord("dispatch", type, "none", chipId, FALSE)
            /\ UNCHANGED <<chipDestroyed, chips_>>
    /\ UNCHANGED <<idCounter, chipObjs, chipDom, csListeners, csDestroys,
                   csFoundationDestroys, notCs>>

\* adapter.setSelected(chipId, selected).  The chip's foundation notifies the
\* selection, which reaches the root as an MDCChip:selection event.
SetSelected(chipId, selected) ==
    /\ CsConstructed
    /\ LET index == FindChipIndex(chips_, chipId) IN
       IF index >= 1
       THEN /\ chipDom' = [chipDom EXCEPT ![chips_[index].obj] =
                              ChipSelectedSetter(@, selected)]
            /\ csLast' = CsRecord("setSelected", SELECTION_EVENT,
                  IF SELECTION_EVENT \in csListeners
                  THEN "handleChipSelection" ELSE "none",
                  chipId, selected)
       ELSE /\ UNCHANGED chipDom
            /\ csLast' = CsRecord("setSelected", "", "none", chipId, selected)
    /\ UNCHANGED <<chips_, idCounter, chipObjs, chipDestroyed, csListeners,
                   csDestroys, csFoundationDestroys, notCs>>

\* unlisten of the three chip events.
MutUnlistenKeepsRemoval(listeners) == listeners \ {INTERACTION_EVENT, SELECTION_EVENT}

UnlistenChipEvents(listeners) ==
    listeners \ {INTERACTION_EVENT, SELECTION_EVENT, REMOVAL_EVENT}

\* MDCChipSet.destroy()
CsDestroy ==
    /\ CsConstructed
    /\ csDestroys < MaxDestroys
    /\ chipDestroyed' = DestroyAll(chipDestroyed, chips_)
    /\ csListeners' = UnlistenChipEvents(csListeners)
    /\ csFoundationDestroys' = csFoundationDestroys + 1
    /\ csDestroys' = csDestroys + 1
    /\ csLast' = CsRecord("destroy", "", "none", NoId, FALSE)
    /\ UNCHANGED <<chips_, idCounter, chipObjs, chipDom, notCs>>

\* No chip set on the page.
CsUnused ==
    /\ chips_ = <<>>
    /\ idCounter = 0
    /\ chipObjs = 0
    /\ chipDestroyed = [o \in ChipObjs |-> 0]
    /\ chipDom = [o \in ChipObjs |-> NoChipDom]
    /\ csListeners = {}
    /\ csDestroys = 0
    /\ csFoundationDestroys = 0
    /\ csLast = CsRecord("none", "", "none", NoId, FALSE)

SeqsUpTo(S, n) == UNION {[1..k -> S] : k \in 0..n}

\* new MDCChipSet(root): initialize() makes the chips of the chip elements
\* under the root, initialSyncWithDOM() listens to the three chip events.
CsInit ==
    /\ \E elIds \in SeqsUpTo(ElIds, MaxInitChips) :
          LET st == InstantiateChips([chips |-> <<>>, idCounter |-> 0,
                                      chipObjs |-> 0], elIds) IN
          /\ chips_ = st.chips
          /\ idCounter = st.idCounter
          /\ chipObjs = st.chipObjs
          /\ chipDom \in {d \in [ChipObjs -> ChipMarkups \cup {NoChipDom}] :
                           \A o \in ChipObjs :
                              d[o] = NoChipDom <=> o > st.chipObjs}
    /\ chipDestroyed = [o \in ChipObjs |-> 0]
    /\ csListeners = ChipEvents
    /\ csDestroys = 0
    /\ csFoundationDestroys = 0
    /\ csLast = CsRecord("construct", "", "none", NoId, FALSE)

CsNext ==
    \/ \E elId \in ElIds : AddChip(elId)
    \/ \E type \in ChipEvents : \E chipId \in ChipIds : DispatchChipEvent(type, chipId)
    \/ CsDestroy

\* The operations of the set and the selections its foundation asks for.
CsSelectionNext ==
    \/ CsNext
    \/ \E chipId \in ChipIds : \E selected \in BOOLEAN : SetSelected(chipId, selected)


(***************************************************************************)
(*                 MDCDataTable (mdc-data-table/component.ts)              *)
(***************************************************************************)

\* Rows the table body holds, at most.
MaxRows == 2

\* MDCCheckbox objects the checkbox factory may make in one run of the model.
MaxCheckboxes == 6

CheckboxObjs == 1..MaxCheckboxes

\* this.headerRowCheckbox before it is assigned.
NoCheckbox == 0

HEADER_ROW_CHANGE == "headerRow:change"
HEADER_ROW_CLICK == "headerRow:click"
CONTENT_CHANGE == "content:change"
DtEvents == {HEADER_ROW_CHANGE, HEADER_ROW_CLICK, CONTENT_CHANGE}

\* adapter.isRowsSelectable(): some row checkbox is in the DOM.
IsRowsSelectable(rows) == rows.selectable /\ rows.count > 0

\* A table state st: header, rowList (defined, list), objs, destroyed.

\* registerHeaderRowCheckbox that keeps the previous checkbox alive.
MutRegisterHeaderNoDestroy(st) ==
    [st EXCEPT !.header = st.objs + 1, !.objs = st.objs + 1]

\* adapter.registerHeaderRowCheckbox()
RegisterHeaderRowCheckbox(st) ==
    LET d == IF st.header # NoCheckbox
             THEN [st.destroyed EXCEPT ![st.header] = @ + 1]
             ELSE st.destroyed IN
    [st EXCEPT !.destroyed = d, !.header = st.objs + 1, !.objs = st.objs + 1]

\* registerRowCheckboxes that keeps the previous checkboxes alive.
MutRegisterRowsNoDestroy(st, nRows) ==
    [st EXCEPT !.rowList = [defined |-> TRUE,
                            list |-> [i \in 1..nRows |-> st.objs + i]],
               !.objs = st.objs + nRows]

\* adapter.registerRowCheckboxes()
RegisterRowCheckboxes(st, nRows) ==
    LET d == IF st.rowList.defined
             THEN [o \in CheckboxObjs |-> st.destroyed[o] + Count(st.rowList.list, o)]
             ELSE st.destroyed IN
    [st EXCEPT !.destroyed = d,
               !.rowList = [defined |-> TRUE,
                            list |-> [i \in 1..nRows |-> st.objs + i]],
               !.objs = st.objs + nRows]

\* foundation.layout(): re-registers the header row checkbox and the row
\* checkboxes when the rows are selectable.
FoundationLayout(st, rows) ==
    IF IsRowsSelectable(rows)
    THEN RegisterRowCheckboxes(RegisterHeaderRowCheckbox(st), rows.count)
    ELSE st

DtState ==
    [header |-> headerRowCheckbox, rowList |-> rowCheckboxList,
     objs |-> checkboxObjs, destroyed |-> checkboxDestroyed]

DtRecord(op, evt, handled, threw) ==
    [op |-> op, evt |-> evt, handled |-> handled, threw |-> threw]

\* A data table was constructed on the page.
DtConstructed == dtLast.op # "none"

\* layout()
DtLayout ==
    /\ DtConstructed
    /\ checkboxObjs + 1 + dtRows.count <= MaxCheckboxes
    /\ LET st == FoundationLayout(DtState, dtRows) IN
       /\ headerRowCheckbox' = st.header
       /\ rowCheckboxList' = st.rowList
       /\ checkboxObjs' = st.objs
       /\ checkboxDestroyed' = st.destroyed
    /\ dtLast' = DtRecord("layout", "", "none", "none")
    /\ UNCHANGED <<dtRows, dtListeners, dtDestroys, dtFoundationDestroys, notDt>>

\* The page adds or removes rows, with or without row checkboxes.
DtSetRows(count, selectable) ==
    /\ DtConstructed
    /\ dtRows' = [count |-> count, selectable |-> selectable]
    /\ dtRows' # dtRows
    /\ dtLast' = DtRecord("setRows", "", "none", "none")
    /\ UNCHANGED <<headerRowCheckbox, rowCheckboxList, checkboxObjs,
                   checkboxDestroyed, dtListeners, dtDestroys,
                   dtFoundationDestroys, notDt>>

\* A change or click event reaches the header row or the content element.
\* Listened to, it runs the listener that initialSyncWithDOM() added.
DtDispatch(evt) ==
    /\ DtConstructed
    /\ dtLast' = DtRecord("dispatch", evt,
          IF evt \notin dtListeners THEN "none"
          ELSE CASE evt = HEADER_ROW_CHANGE -> "handleHeaderRowCheckboxChange"
                 [] evt = HEADER_ROW_CLICK -> "handleHeaderRowClick"
                 [] evt = CONTENT_CHANGE -> "handleRowCheckboxChange",
          "none")
    /\ UNCHANGED <<headerRowCheckbox, rowCheckboxList, checkboxObjs,
                   checkboxDestroyed, dtRows, dtListeners, dtDestroys,
                   dtFoundationDestroys, notDt>>

\* removeEventListener of one listener only.
MutRemoveListenersKeepsClick(listeners) ==
    listeners \ {HEADER_ROW_CHANGE, CONTENT_CHANGE}

\* The three removeEventListener calls of destroy().
RemoveListeners(listeners) ==
    listeners \ {HEADER_ROW_CHANGE, HEADER_ROW_CLICK, CONTENT_CHANGE}

\* MDCDataTable.destroy(): this.headerRowCheckbox.destroy() throws a TypeError
\* when no checkbox was ever registered; the foundation is not destroyed.
DtDestroy ==
    /\ DtConstructed
    /\ dtDestroys < MaxDestroys
    /\ dtListeners' = RemoveListeners(dtListeners)
    /\ dtDestroys' = dtDestroys + 1
    /\ IF headerRowCheckbox = NoCheckbox
       THEN /\ dtLast' = DtRecord("destroy", "", "none", "TypeError")
            /\ UNCHANGED checkboxDestroyed
       ELSE /\ dtLast' = DtRecord("destroy", "", "none", "none")
            /\ checkboxDestroyed' =
                 [o \in CheckboxObjs |->
                    checkboxDestroyed[o]
                    + (IF o = headerRowCheckbox THEN 1 ELSE 0)
                    + (IF rowCheckboxList.defined
                       THEN Count(rowCheckboxList.list, o) ELSE 0)]
    /\ UNCHANGED <<headerRowCheckbox, rowCheckboxList, checkboxObjs, dtRows,
                   dtFoundationDestroys, notDt>>

\* No data table on the page.
DtUnused ==
    /\ headerRowCheckbox = NoCheckbox
    /\ rowCheckboxList = [defined |-> FALSE, list |-> <<>>]
    /\ checkboxObjs = 0
    /\ checkboxDestroyed = [o \in CheckboxObjs |-> 0]
    /\ dtRows = [count |-> 0, selectable |-> FALSE]
    /\ dtListeners = {}
    /\ dtDestroys = 0
    /\ dtFoundationDestroys = 0
    /\ dtLast = DtRecord("none", "", "none", "none")

\* new MDCDataTable(root): initialSyncWithDOM() adds the three listeners and
\* calls layout().
DtInit ==
    /\ dtRows \in [count : 0..MaxRows, selectable : BOOLEAN]
    /\ LET st == FoundationLayout(
                   [header |-> NoCheckbox,
                    rowList |-> [defined |-> FALSE, list |-> <<>>],
                    objs |-> 0,
                    destroyed |-> [o \in CheckboxObjs |-> 0]], dtRows) IN
       /\ headerRowCheckbox = st.header
       /\ rowCheckboxList = st.rowList
       /\ checkboxObjs = st.objs
       /\ checkboxDestroyed = st.destroyed
    /\ dtListeners = DtEvents
    /\ dtDestroys = 0
    /\ dtFoundationDestroys = 0
    /\ dtLast = DtRecord("construct", "", "none", "none")

DtNext ==
    \/ DtLayout
    \/ \E c \in 0..MaxRows : \E sel \in BOOLEAN : DtSetRows(c, sel)
    \/ \E evt \in DtEvents : DtDispatch(evt)
    \/ DtDestroy


(***************************************************************************)
(*             MDCSelectFoundation (mdc-select/foundation.ts)              *)
(*                                                                         *)
(* Classes are named by their key in cssClasses.  A method works on st:    *)
(* the DOM behind the adapter, the calls made so far (t: whose method, m:  *)
(* the method, a: its argument) and whether it has thrown; nothing runs    *)
(* after a throw.  setHelperTextContent, setLeadingIconAriaLabel and       *)
(* setLeadingIconContent only forward to a sub-foundation and are left out.*)
(***************************************************************************)

\* The options of the control, by index 0, 1, 2.
Options == <<"", "orange", "apple">>

\* The keys of the object MDCSelectFoundation.defaultAdapter returns.
SelectDefaultAdapter ==
    {"addClass", "removeClass", "hasClass", "activateBottomLine",
     "deactivateBottomLine", "setValue", "getValue", "floatLabel",
     "getLabelWidth", "hasOutline", "notchOutline", "closeOutline", "openMenu",
     "closeMenu", "isMenuOpen", "setSelectedIndex", "setDisabled",
     "setRippleCenter", "notifyChange", "checkValidity", "setValid"}

\* Adapters a select may be constructed with: none, a complete one, and one of
\* a select without label and outline.
SelectAdapters ==
    {{}, SelectDefaultAdapter,
     SelectDefaultAdapter \ {"floatLabel", "getLabelWidth", "hasOutline",
                             "notchOutline", "closeOutline"}}

\* A constructor that hands the given adapter to super() without the defaults.
MutSelectAdapterNoMerge(provided) == provided

\* The adapter methods the test of the default adapter of the select lists.
SelectAdapterMethodList ==
    {"addClass", "removeClass", "hasClass", "activateBottomLine",
     "deactivateBottomLine", "getSelectedMenuItem", "hasLabel", "floatLabel",
     "getLabelWidth", "hasOutline", "notchOutline", "closeOutline",
     "setRippleCenter", "notifyChange", "setSelectedText", "isSelectedTextFocused",
     "getSelectedTextAttr", "setSelectedTextAttr", "openMenu", "closeMenu",
     "getAnchorElement", "setMenuAnchorElement", "setMenuAnchorCorner",
     "setMenuWrapFocus", "setAttributeAtIndex", "removeAttributeAtIndex",
     "focusMenuItemAtIndex", "getMenuItemCount", "getMenuItemValues",
     "getMenuItemTextAtIndex", "getMenuItemAttr", "addClassAtIndex",
     "removeClassAtIndex"}

\* {...MDCSelectFoundation.defaultAdapter, ...adapter}: the methods of the
\* merged adapter.
SelectAdapterKeys(provided) == SelectDefaultAdapter \cup provided

\* Keyboard events: key and keyCode, either of which may be missing.
KeyEvents ==
    LET named == {<<"Enter", 13>>, <<"Space", 32>>, <<"ArrowUp", 38>>,
                  <<"ArrowDown", 40>>, <<"Tab", 9>>} IN
    {[key |-> k[1], keyCode |-> k[2]] : k \in named}
    \cup {[key |-> k[1], keyCode |-> 0] : k \in named}
    \cup {[key |-> "", keyCode |-> k[2]] : k \in named}

\* A call of a method that is not the adapter's: of a sub-foundation, an event.
Log(st, t, m, a) ==
    IF st.threw THEN st
    ELSE [st EXCEPT !.calls = Append(@, [t |-> t, m |-> m, a |-> a])]

\* The control's value for a selectedIndex.
Value(index) == IF index >= 0 /\ index < Len(Options) THEN Options[index + 1] ELSE ""

\* The index of a value among the options, -1 when it is none of them.
IndexOf(value) ==
    IF \E i \in 1..Len(Options) : Options[i] = value
    THEN (CHOOSE i \in 1..Len(Options) : Options[i] = value) - 1
    ELSE -1

\* this.adapter_[m](a): a TypeError when the merged adapter has no method m, the
\* default no-op when the constructor was not given m, else the effect on the DOM.
Ad(st, m, a) ==
    LET s == Log(st, "adapter", m, a) IN
    IF st.threw THEN st
    ELSE IF m \notin SelectAdapterKeys(selProvided) THEN [s EXCEPT !.threw = TRUE]
    ELSE IF m \notin selProvided THEN s
    ELSE CASE m = "addClass" -> [s EXCEPT !.classes = @ \cup {a}]
           [] m = "removeClass" -> [s EXCEPT !.classes = @ \ {a}]
           [] m = "openMenu" -> [s EXCEPT !.menuOpen = TRUE]
           [] m = "closeMenu" -> [s EXCEPT !.menuOpen = FALSE]
           [] m = "setSelectedIndex" ->
                [s EXCEPT !.index = IF a >= 0 /\ a < Len(Options) THEN a ELSE -1]
           [] m = "setValue" -> [s EXCEPT !.index = IndexOf(a)]
           [] m = "notifyChange" ->
                Log(s, "emit", "MDCSelect:change", [index |-> s.index, value |-> a])
           [] OTHER -> s

\* What this.adapter_[m](a) returns: false, '' and 0 from the default adapter.
AdReturn(st, m, a) ==
    CASE m = "hasClass" -> m \in selProvided /\ a \in st.classes
      [] m = "isMenuOpen" -> m \in selProvided /\ st.menuOpen
      [] m = "hasOutline" -> m \in selProvided /\ selHasOutline
      [] m = "checkValidity" ->
           m \in selProvided /\ ("REQUIRED" \notin st.classes \/ Value(st.index) # "")
      [] m = "getValue" -> IF m \in selProvided THEN Value(st.index) ELSE ""
      [] m = "getLabelWidth" -> IF m \in selProvided THEN "labelWidth" ELSE "0"

\* notchOutline(openNotch)
\* A notchOutline that closes the notch of a focused select too.
MutNotchOutlineClosesFocused(st, openNotch) ==
    LET s1 == Ad(st, "hasOutline", "") IN
    IF ~AdReturn(st, "hasOutline", "") THEN s1
    ELSE IF openNotch
    THEN Ad(Ad(s1, "getLabelWidth", ""), "notchOutline",
            AdReturn(s1, "getLabelWidth", "") \o "*LABEL_SCALE")
    ELSE Ad(s1, "closeOutline", "")

NotchOutline(st, openNotch) ==
    LET s1 == Ad(st, "hasOutline", "") IN
    IF ~AdReturn(st, "hasOutline", "") THEN s1
    ELSE
      LET s2 == Ad(s1, "hasClass", "FOCUSED")
          isFocused == AdReturn(s1, "hasClass", "FOCUSED") IN
      IF openNotch
      THEN Ad(Ad(s2, "getLabelWidth", ""), "notchOutline",
              AdReturn(s2, "getLabelWidth", "") \o "*LABEL_SCALE")
      ELSE IF ~isFocused THEN Ad(s2, "closeOutline", "")
      ELSE s2

\* this.setValid(this.isValid()); if (this.helperText_)
\* this.helperText_.setValidity(this.isValid())
Validate(st) ==
    LET isValid == AdReturn(st, "checkValidity", "")
        s1 == Ad(Ad(st, "checkValidity", ""), "setValid", isValid) IN
    IF "helperText" \in selFoundationMap
    THEN Log(Ad(s1, "checkValidity", ""), "helperText", "setValidity", isValid)
    ELSE s1

\* A handleChange that notifies whether or not the value changed.
MutHandleChangeAlwaysNotifies(st, didChange) ==
    LET value == AdReturn(st, "getValue", "")
        s1 == Ad(Ad(st, "getValue", ""), "hasClass", "REQUIRED")
        s2 == NotchOutline(s1, value # "")
        s3 == Ad(s2, "hasClass", "FOCUSED")
        s4 == IF ~AdReturn(s2, "hasClass", "FOCUSED")
              THEN Ad(s3, "floatLabel", value # "") ELSE s3 IN
    Ad(s4, "notifyChange", value)

\* handleChange(didChange)
HandleChange(st, didChange) ==
    LET value == AdReturn(st, "getValue", "")
        optionHasValue == value # ""
        isRequired == AdReturn(st, "hasClass", "REQUIRED")
        s1 == Ad(Ad(st, "getValue", ""), "hasClass", "REQUIRED")
        s2 == NotchOutline(s1, optionHasValue)
        s3 == Ad(s2, "hasClass", "FOCUSED")
        s4 == IF ~AdReturn(s2, "hasClass", "FOCUSED")
              THEN Ad(s3, "floatLabel", optionHasValue) ELSE s3 IN
    IF didChange
    THEN LET s5 == Ad(s4, "notifyChange", value) IN
         IF isRequired THEN Validate(s5) ELSE s5
    ELSE s4

\* The DOM as a call finds it, with no call made yet.
SelState ==
    [classes |-> selClasses, menuOpen |-> selMenuOpen, index |-> selIndex,
     calls |-> <<>>, threw |-> FALSE]

NoEvent == [key |-> "", keyCode |-> 0]

SelRecord(op, arg, event, calls, threw) ==
    [op |-> op, arg |-> arg, event |-> event, calls |-> calls, threw |-> threw]

\* One call of the foundation that ends with st: the DOM and the record of the
\* call afterwards.
SelCall(op, arg, event, st) ==
    /\ selLast.op # "none"
    /\ selClasses' = st.classes
    /\ selMenuOpen' = st.menuOpen
    /\ selIndex' = st.index
    /\ selLast' = SelRecord(op, arg, event, st.calls, st.threw)
    /\ UNCHANGED <<selProvided, selFoundationMap, selHasOutline, notSel>>

\* setSelectedIndex that passes didChange = false to handleChange.
MutSelSetSelectedIndexSilent ==
    \E index \in -1..Len(Options) :
        SelCall("setSelectedIndex", index, NoEvent,
                HandleChange(Ad(Ad(SelState, "setSelectedIndex", index),
                                "closeMenu", ""), FALSE))

\* setSelectedIndex(index), with no index, an option's, or one past the end
SelSetSelectedIndex ==
    \E index \in -1..Len(Options) :
        SelCall("setSelectedIndex", index, NoEvent,
                HandleChange(Ad(Ad(SelState, "setSelectedIndex", index),
                                "closeMenu", ""), TRUE))

\* setValue(value), with an option's value or one that is no option's
SelSetValue ==
    \E value \in Range(Options) \cup {"pear"} :
        SelCall("setValue", value, NoEvent,
                HandleChange(Ad(SelState, "setValue", value), TRUE))

\* getValue()
SelGetValue == SelCall("getValue", "", NoEvent, Ad(SelState, "getValue", ""))

\* setDisabled(isDisabled)
SelSetDisabled ==
    \E isDisabled \in BOOLEAN :
        LET s1 == Ad(SelState, IF isDisabled THEN "addClass" ELSE "removeClass",
                     "DISABLED")
            s2 == Ad(Ad(s1, "setDisabled", isDisabled), "closeMenu", "") IN
        SelCall("setDisabled", isDisabled, NoEvent,
                IF "leadingIcon" \in selFoundationMap
                THEN Log(s2, "leadingIcon", "setDisabled", isDisabled) ELSE s2)

\* layout()
SelLayout ==
    SelCall("layout", "", NoEvent,
            NotchOutline(Ad(SelState, "getValue", ""),
                         AdReturn(SelState, "getValue", "") # ""))

\* handleMenuOpened()
SelHandleMenuOpened ==
    SelCall("handleMenuOpened", "", NoEvent, Ad(SelState, "addClass", "ACTIVATED"))

\* handleMenuClosed()
SelHandleMenuClosed ==
    SelCall("handleMenuClosed", "", NoEvent, Ad(SelState, "removeClass", "ACTIVATED"))

\* handleChange(didChange)
SelHandleChange ==
    \E didChange \in BOOLEAN :
        SelCall("handleChange", didChange, NoEvent, HandleChange(SelState, didChange))

\* handleFocus()
SelHandleFocus ==
    LET s1 == Ad(Ad(SelState, "addClass", "FOCUSED"), "floatLabel", TRUE)
        s2 == Ad(NotchOutline(s1, TRUE), "activateBottomLine", "") IN
    SelCall("handleFocus", "", NoEvent,
            IF "helperText" \in selFoundationMap
            THEN Log(s2, "helperText", "showToScreenReader", "") ELSE s2)

\* handleBlur that validates whether or not the select is required.
MutSelHandleBlurAlwaysValidates ==
    LET s0 == Ad(SelState, "isMenuOpen", "")
        s1 == HandleChange(Ad(s0, "removeClass", "FOCUSED"), FALSE)
        s2 == Ad(Ad(s1, "deactivateBottomLine", ""), "hasClass", "REQUIRED") IN
    SelCall("handleBlur", "", NoEvent,
            IF AdReturn(SelState, "isMenuOpen", "") THEN s0 ELSE Validate(s2))

\* handleBlur that does not ask whether the menu is open.
MutSelHandleBlurNoMenuGuard ==
    LET s1 == HandleChange(Ad(SelState, "removeClass", "FOCUSED"), FALSE)
        s2 == Ad(Ad(s1, "deactivateBottomLine", ""), "hasClass", "REQUIRED") IN
    SelCall("handleBlur", "", NoEvent,
            IF AdReturn(s1, "hasClass", "REQUIRED") THEN Validate(s2) ELSE s2)

\* handleBlur()
SelHandleBlur ==
    LET s0 == Ad(SelState, "isMenuOpen", "")
        s1 == HandleChange(Ad(s0, "removeClass", "FOCUSED"), FALSE)
        s2 == Ad(Ad(s1, "deactivateBottomLine", ""), "hasClass", "REQUIRED") IN
    SelCall("handleBlur", "", NoEvent,
            IF AdReturn(SelState, "isMenuOpen", "") THEN s0
            ELSE IF AdReturn(s1, "hasClass", "REQUIRED") THEN Validate(s2)
            ELSE s2)

\* handleClick that opens the menu without asking whether it is open.
MutSelHandleClickNoGuard ==
    \E normalizedX \in {0, 24} :
        SelCall("handleClick", normalizedX, NoEvent,
                Ad(Ad(Ad(SelState, "isMenuOpen", ""), "setRippleCenter", normalizedX),
                   "openMenu", ""))

\* handleClick(normalizedX)
SelHandleClick ==
    \E normalizedX \in {0, 24} :
        LET s0 == Ad(SelState, "isMenuOpen", "") IN
        SelCall("handleClick", normalizedX, NoEvent,
                IF AdReturn(SelState, "isMenuOpen", "") THEN s0
                ELSE Ad(Ad(s0, "setRippleCenter", normalizedX), "openMenu", ""))

\* The key test of handleKeydown without ArrowUp.
MutIsOpenKey(event) ==
    \/ event.key = "Enter" \/ event.keyCode = 13
    \/ event.key = "Space" \/ event.keyCode = 32
    \/ event.key = "ArrowDown" \/ event.keyCode = 40

\* isEnter || isSpace || arrowUp || arrowDown
IsOpenKey(event) ==
    LET isEnter == event.key = "Enter" \/ event.keyCode = 13
        isSpace == event.key = "Space" \/ event.keyCode = 32
        arrowUp == event.key = "ArrowUp" \/ event.keyCode = 38
        arrowDown == event.key = "ArrowDown" \/ event.keyCode = 40 IN
    isEnter \/ isSpace \/ arrowUp \/ arrowDown

\* handleKeydown(event)
SelHandleKeydown ==
    \E event \in KeyEvents :
        LET s0 == Ad(SelState, "isMenuOpen", "")
            s1 == Ad(s0, "hasClass", "FOCUSED") IN
        SelCall("handleKeydown", "", event,
                IF AdReturn(SelState, "isMenuOpen", "") THEN s0
                ELSE IF AdReturn(s0, "hasClass", "FOCUSED") /\ IsOpenKey(event)
                THEN Log(Ad(s1, "openMenu", ""), "event", "preventDefault", "")
                ELSE s1)

\* notchOutline(openNotch)
SelNotchOutline ==
    \E openNotch \in BOOLEAN :
        SelCall("notchOutline", openNotch, NoEvent, NotchOutline(SelState, openNotch))

\* setValid(isValid)
SelSetValid ==
    \E isValid \in BOOLEAN :
        SelCall("setValid", isValid, NoEvent, Ad(SelState, "setValid", isValid))

\* isValid()
SelIsValid ==
    SelCall("isValid", AdReturn(SelState, "checkValidity", ""), NoEvent,
            Ad(SelState, "checkValidity", ""))

\* No select on the page.
SelUnused ==
    /\ selProvided = {}
    /\ selFoundationMap = {}
    /\ selHasOutline = FALSE
    /\ selClasses = {}
    /\ selMenuOpen = FALSE
    /\ selIndex = -1
    /\ selLast = SelRecord("none", "", NoEvent, <<>>, FALSE)

\* new MDCSelectFoundation(adapter, foundationMap) on a select whose markup may
\* carry the required class and an outline, with its menu closed.
SelInit ==
    /\ selProvided \in SelectAdapters
    /\ selFoundationMap \in SUBSET {"leadingIcon", "helperText"}
    /\ selHasOutline \in BOOLEAN
    /\ selClasses \in {{}, {"REQUIRED"}}
    /\ selMenuOpen = FALSE
    /\ selIndex \in -1..(Len(Options) - 1)
    /\ selLast = SelRecord("constructor", "", NoEvent, <<>>, FALSE)

SelNext ==
    \/ SelSetSelectedIndex \/ SelSetValue \/ SelGetValue \/ SelSetDisabled
    \/ SelLayout \/ SelHandleMenuOpened \/ SelHandleMenuClosed
    \/ SelHandleChange \/ SelHandleFocus \/ SelHandleBlur \/ SelHandleClick
    \/ SelHandleKeydown \/ SelNotchOutline \/ SelSetValid \/ SelIsValid

(***************************************************************************)
(*        MDCChipFoundation (second class of mdc-select/foundation.ts)     *)
(***************************************************************************)

\* Pending animation-frame callbacks a chip may have at once.
MaxFrames == 2

\* The keys of the object MDCChipFoundation.defaultAdapter returns.
ChipDefaultAdapter ==
    {"addClass", "addClassToLeadingIcon", "eventTargetHasClass",
     "getCheckmarkBoundingClientRect", "getComputedStyleValue",
     "getRootBoundingClientRect", "hasClass", "hasLeadingIcon",
     "notifyInteraction", "notifyRemoval", "notifySelection",
     "notifyTrailingIconInteraction", "removeClass",
     "removeClassFromLeadingIcon", "setStyleProperty"}

\* Adapters a chip may be constructed with: none, a complete one, and one of a
\* chip without leading icon and checkmark.
ChipAdapters ==
    {{}, ChipDefaultAdapter,
     ChipDefaultAdapter \ {"addClassToLeadingIcon", "removeClassFromLeadingIcon",
                           "hasLeadingIcon", "getCheckmarkBoundingClientRect"}}

\* The adapter methods the test of the default adapter of the chip lists.
ChipAdapterMethodList ==
    {"addClass", "removeClass", "hasClass", "addClassToLeadingIcon",
     "removeClassFromLeadingIcon", "eventTargetHasClass", "notifyInteraction",
     "notifyTrailingIconInteraction", "notifyRemoval", "notifySelection",
     "getComputedStyleValue", "setStyleProperty", "hasLeadingIcon",
     "getRootBoundingClientRect", "getCheckmarkBoundingClientRect",
     "notifyNavigation", "focusPrimaryAction", "focusTrailingAction",
     "hasTrailingAction", "isRTL", "setPrimaryActionAttr", "setTrailingActionAttr"}

\* {...MDCChipFoundation.defaultAdapter, ...adapter}: the methods of the merged
\* adapter.
ChipAdapterKeys(provided) == ChipDefaultAdapter \cup provided

\* Mouse and keyboard events on the chip or its trailing icon.
InteractionEvents ==
    {[type |-> "click", key |-> "", keyCode |-> 0],
     [type |-> "keydown", key |-> "Enter", keyCode |-> 13],
     [type |-> "keydown", key |-> "Enter", keyCode |-> 0],
     [type |-> "keydown", key |-> "", keyCode |-> 13],
     [type |-> "keydown", key |-> " ", keyCode |-> 32],
     [type |-> "keydown", key |-> "Tab", keyCode |-> 9]}

\* transitionend events: the element they come from and the property.
TransitionEvents ==
    [target : {"root", "leadingIcon", "checkmark"},
     propertyName : {"width", "opacity", "color"}]

\* this.adapter_[m](a) of the chip: a TypeError when the merged adapter has no
\* method m, the default no-op when the constructor was not given m, else the
\* effect on the root's classes.
CfAd(st, m, a) ==
    LET s == Log(st, "adapter", m, a) IN
    IF st.threw THEN st
    ELSE IF m \notin ChipAdapterKeys(cfProvided) THEN [s EXCEPT !.threw = TRUE]
    ELSE IF m \notin cfProvided THEN s
    ELSE CASE m = "addClass" -> [s EXCEPT !.classes = @ \cup {a}]
           [] m = "removeClass" -> [s EXCEPT !.classes = @ \ {a}]
           [] OTHER -> s

\* What this.adapter_[m](a) returns: false, '' and the empty rect from the
\* default adapter; a chip without checkmark has no checkmark rect (null).
CfAdReturn(st, m, a) ==
    CASE m = "hasClass" -> m \in cfProvided /\ a \in st.classes
      [] m = "eventTargetHasClass" ->
           /\ m \in cfProvided
           /\ \/ a[1] = "root" /\ a[2] \in st.classes
              \/ a[1] = "leadingIcon" /\ a[2] = "LEADING_ICON"
              \/ a[1] = "checkmark" /\ a[2] = "CHECKMARK"
      [] m = "hasLeadingIcon" -> m \in cfProvided /\ "leadingIcon" \in cfMarkup
      [] m = "getCheckmarkBoundingClientRect" ->
           IF m \in cfProvided /\ "checkmark" \notin cfMarkup
           THEN "null" ELSE "rect"
      [] m = "getComputedStyleValue" -> IF m \in cfProvided THEN "100px" ELSE ""

\* requestAnimationFrame(callback): the callback waits for the next frame.
RequestAnimationFrame(st, callback) ==
    IF st.threw THEN st ELSE [st EXCEPT !.frames = Append(@, callback)]

\* A handler that notifies the removal at the end of every width transition.
MutHandleTransitionEndAnyWidth(st, evt) ==
    IF evt.propertyName = "width" THEN CfAd(st, "notifyRemoval", "") ELSE st

\* handleTransitionEnd(evt)
HandleTransitionEnd(st, evt) ==
    LET Is(s, c) == CfAdReturn(s, "eventTargetHasClass", <<evt.target, c>>)
        Ask(s, c) == CfAd(s, "eventTargetHasClass", <<evt.target, c>>)
        selected == CfAdReturn(st, "hasClass", "SELECTED")
        s0 == Ask(st, "CHIP_EXIT") IN
    IF Is(st, "CHIP_EXIT")
    THEN IF evt.propertyName = "width" THEN CfAd(s0, "notifyRemoval", "")
         ELSE IF evt.propertyName = "opacity"
         THEN RequestAnimationFrame(
                  CfAd(s0, "getComputedStyleValue", "width"),
                  [cb |-> "setWidth",
                   chipWidth |-> CfAdReturn(s0, "getComputedStyleValue", "width")])
         ELSE s0
    ELSE IF evt.propertyName # "opacity" THEN s0
    ELSE LET s1 == Ask(s0, "LEADING_ICON")
             s2 == IF Is(st, "LEADING_ICON") THEN CfAd(s1, "hasClass", "SELECTED")
                   ELSE s1 IN
         IF Is(st, "LEADING_ICON") /\ selected
         THEN CfAd(s2, "addClassToLeadingIcon", "HIDDEN_LEADING_ICON")
         ELSE LET s3 == Ask(s2, "CHECKMARK")
                  s4 == IF Is(st, "CHECKMARK") THEN CfAd(s3, "hasClass", "SELECTED")
                        ELSE s3 IN
              IF Is(st, "CHECKMARK") /\ ~selected
              THEN CfAd(s4, "removeClassFromLeadingIcon", "HIDDEN_LEADING_ICON")
              ELSE s4

\* Frame callbacks of which the first sets the width to 0 right after the
\* explicit width, within the same frame.
RECURSIVE MutRunFrameCallbacksZeroAtOnce(_, _)
MutRunFrameCallbacksZeroAtOnce(st, callbacks) ==
    IF callbacks = <<>> THEN st
    ELSE LET s0 == [st EXCEPT !.threw = FALSE]
             r == IF Head(callbacks).cb = "setWidth"
                  THEN CfAd(CfAd(CfAd(CfAd(s0, "setStyleProperty",
                                           <<"width", Head(callbacks).chipWidth>>),
                                      "setStyleProperty", <<"padding", "0">>),
                                 "setStyleProperty", <<"margin", "0">>),
                            "setStyleProperty", <<"width", "0">>)
                  ELSE CfAd(s0, "setStyleProperty", <<"width", "0">>) IN
         MutRunFrameCallbacksZeroAtOnce(r, Tail(callbacks))

\* The browser runs the callbacks requested before this frame, in order, a
\* throw ending only the callback it happens in; what they request waits for
\* the frame after.
RECURSIVE RunFrameCallbacks(_, _)
RunFrameCallbacks(st, callbacks) ==
    IF callbacks = <<>> THEN st
    ELSE LET s0 == [st EXCEPT !.threw = FALSE]
             r == IF Head(callbacks).cb = "setWidth"
                  THEN RequestAnimationFrame(
                           CfAd(CfAd(CfAd(s0, "setStyleProperty",
                                          <<"width", Head(callbacks).chipWidth>>),
                                     "setStyleProperty", <<"padding", "0">>),
                                "setStyleProperty", <<"margin", "0">>),
                           [cb |-> "zeroWidth", chipWidth |-> ""])
                  ELSE CfAd(s0, "setStyleProperty", <<"width", "0">>)
             rest == RunFrameCallbacks(r, Tail(callbacks)) IN
         [rest EXCEPT !.threw = r.threw \/ (Tail(callbacks) # <<>> /\ @)]

\* The chip as a call finds it, with no call made yet.
CfState ==
    [classes |-> cfClasses, frames |-> cfFrames, calls |-> <<>>, threw |-> FALSE]

NoInteraction == [type |-> "", key |-> "", keyCode |-> 0]

CfRecord(op, evt, arg, calls, threw) ==
    [op |-> op, evt |-> evt, arg |-> arg, calls |-> calls, threw |-> threw]

\* One call of the foundation that ends with st: the chip and the record of
\* the call afterwards.
CfCall(op, evt, arg, st) ==
    /\ cfLast.op # "none"
    /\ cfClasses' = st.classes
    /\ cfFrames' = st.frames
    /\ cfLast' = CfRecord(op, evt, arg, st.calls, st.threw)
    /\ UNCHANGED <<cfProvided, cfMarkup, cfShouldRemove, cfDestroyed, notCf>>

\* isSelected()
CfIsSelected ==
    CfCall("isSelected", NoInteraction, "", CfAd(CfState, "hasClass", "SELECTED"))

\* setSelected(selected)
\* notifySelection is logged with the list of the arguments it is called with.
CfSetSelected ==
    \E selected \in BOOLEAN :
        CfCall("setSelected", NoInteraction, selected,
               CfAd(CfAd(CfState, IF selected THEN "addClass" ELSE "removeClass",
                         "SELECTED"),
                    "notifySelection", <<selected>>))

\* setShouldRemoveOnTrailingIconClick(shouldRemove)
CfSetShouldRemoveOnTrailingIconClick ==
    \E shouldRemove \in BOOLEAN :
        /\ cfLast.op # "none"
        /\ cfShouldRemove' = shouldRemove
        /\ cfLast' = CfRecord("setShouldRemoveOnTrailingIconClick", NoInteraction,
                              shouldRemove, <<>>, FALSE)
        /\ UNCHANGED <<cfProvided, cfMarkup, cfClasses, cfFrames, cfDestroyed, notCf>>

\* getDimensions(): the root's rect, widened by the checkmark's height when
\* the chip has no leading icon and has a checkmark rect.
CfGetDimensions ==
    LET s1 == CfAd(CfState, "hasLeadingIcon", "")
        s2 == CfAd(s1, "getCheckmarkBoundingClientRect", "") IN
    CfCall("getDimensions", NoInteraction, "",
           IF CfAdReturn(CfState, "hasLeadingIcon", "")
           THEN Log(CfAd(s1, "getRootBoundingClientRect", ""),
                    "return", "getDimensions", "rootRect")
           ELSE IF CfAdReturn(s1, "getCheckmarkBoundingClientRect", "") = "null"
           THEN Log(CfAd(s2, "getRootBoundingClientRect", ""),
                    "return", "getDimensions", "rootRect")
           ELSE Log(CfAd(s2, "getRootBoundingClientRect", ""),
                    "return", "getDimensions", "rootRect.width + checkmarkRect.height"))

\* beginExit()
CfBeginExit ==
    CfCall("beginExit", NoInteraction, "", CfAd(CfState, "addClass", "CHIP_EXIT"))

\* handleInteraction(evt)
CfHandleInteraction ==
    \E evt \in InteractionEvents :
        LET isEnter == evt.key = "Enter" \/ evt.keyCode = 13 IN
        CfCall("handleInteraction", evt, "",
               IF evt.type = "click" \/ isEnter
               THEN CfAd(CfState, "notifyInteraction", "") ELSE CfState)

\* handleTransitionEnd(evt) for a transitionend event of an element the chip
\* has; while MaxFrames callbacks wait, the opacity transition of the exit is
\* not delivered.
CfHandleTransitionEnd ==
    \E evt \in TransitionEvents :
        LET st == HandleTransitionEnd(CfState, evt) IN
        /\ evt.target = "root" \/ evt.target \in cfMarkup
        /\ Len(st.frames) <= MaxFrames
        /\ CfCall("handleTransitionEnd", NoInteraction,
                  <<evt.target, evt.propertyName>>, st)

\* handleTrailingIconInteraction(evt)
CfHandleTrailingIconInteraction ==
    \E evt \in InteractionEvents :
        LET isEnter == evt.key = "Enter" \/ evt.keyCode = 13
            s0 == Log(CfState, "event", "stopPropagation", "")
            s1 == CfAd(s0, "notifyTrailingIconInteraction", "") IN
        CfCall("handleTrailingIconInteraction", evt, "",
               IF evt.type = "click" \/ isEnter
               THEN IF cfShouldRemove THEN CfAd(s1, "addClass", "CHIP_EXIT") ELSE s1
               ELSE s0)

\* The next animation frame: every callback requested so far runs.
CfAnimationFrame ==
    /\ cfFrames # <<>>
    /\ CfCall("animationFrame", NoInteraction, "",
              RunFrameCallbacks([CfState EXCEPT !.frames = <<>>], cfFrames))

\* destroy(): MDCChipFoundation does not override it and keeps no handle of
\* the frames it requested, so they stay requested.
CfDestroy ==
    /\ cfLast.op # "none"
    /\ cfDestroyed' = TRUE
    /\ cfLast' = CfRecord("destroy", NoInteraction, "", <<>>, FALSE)
    /\ UNCHANGED <<cfProvided, cfMarkup, cfClasses, cfShouldRemove, cfFrames, notCf>>

\* No chip foundation on the page.
CfUnused ==
    /\ cfProvided = {}
    /\ cfMarkup = {}
    /\ cfClasses = {}
    /\ cfShouldRemove = TRUE
    /\ cfFrames = <<>>
    /\ cfDestroyed = FALSE
    /\ cfLast = CfRecord("none", NoInteraction, "", <<>>, FALSE)

\* new MDCChipFoundation(adapter) on a chip that may be selected in the markup.
CfInit ==
    /\ cfProvided \in ChipAdapters
    /\ cfMarkup \in SUBSET {"leadingIcon", "checkmark"}
    /\ cfClasses \in {{}, {"SELECTED"}}
    /\ cfShouldRemove = TRUE
    /\ cfFrames = <<>>
    /\ cfDestroyed = FALSE
    /\ cfLast = CfRecord("constructor", NoInteraction, "", <<>>, FALSE)

CfNext ==
    \/ CfIsSelected \/ CfSetSelected \/ CfSetShouldRemoveOnTrailingIconClick
    \/ CfGetDimensions \/ CfBeginExit \/ CfHandleInteraction
    \/ CfHandleTransitionEnd \/ CfHandleTrailingIconInteraction
    \/ CfAnimationFrame \/ CfDestroy

(***************************************************************************)
(*      MDCToolbarFoundation (seen through mdc-toolbar/foundation.test.js) *)
(*                                                                         *)
(* The scroll handler and the resize handler each debounce their work: a   *)
(* trigger requests an animation frame unless one of its kind is already   *)
(* requested, and the latch of the kind is reset when its callback runs.   *)
(***************************************************************************)

\* Triggers of one kind counted between two runs of its callback, at most.
MaxBurst == 3

\* Animation frames in one run of the model.
MaxToolbarFrames == 3

FrameKinds == {"scroll", "resize"}

\* A trigger that requests a frame whether or not one is requested already.
MutRequestFrameAlways(st, kind) ==
    [st EXCEPT !.latch[kind] = TRUE, !.frames = Append(@, kind)]

\* The debounce of a trigger of the given kind: at most one frame callback of
\* the kind is requested per cycle.
RequestFrameOnce(st, kind) ==
    IF st.latch[kind] THEN st
    ELSE [st EXCEPT !.latch[kind] = TRUE, !.frames = Append(@, kind)]

\* The frame callback of a kind: it resets the latch of the kind; the one of
\* resize recomputes the key heights and then updates the toolbar styles as a
\* scroll does, which requests a frame of its own.
RunToolbarCallback(st, kind) ==
    LET s == [st EXCEPT !.latch[kind] = FALSE] IN
    IF kind = "resize" THEN RequestFrameOnce(s, "scroll") ELSE s

\* One animation frame: the callbacks requested before it run in order; what
\* they request waits for the next frame.
RECURSIVE RunToolbarFrame(_, _)
RunToolbarFrame(st, due) ==
    IF due = <<>> THEN st
    ELSE RunToolbarFrame(RunToolbarCallback(st, Head(due)), Tail(due))

TbState == [latch |-> tbLatch, frames |-> tbFrames]

\* init(): registers the resize and the scroll handler and sets the key
\* heights, which updates the toolbar styles through the scroll path.
TbInitCall ==
    /\ tbLast = "constructor"
    /\ tbHandlers' = FrameKinds
    /\ LET st == RequestFrameOnce(TbState, "scroll") IN
       /\ tbLatch' = st.latch
       /\ tbFrames' = st.frames
    /\ tbLast' = "init"
    /\ UNCHANGED <<tbBurst, tbRuns, notTb>>

\* The adapter calls the registered scroll or resize handler.
TbTrigger(kind) ==
    /\ kind \in tbHandlers
    /\ tbBurst[kind] < MaxBurst
    /\ LET st == RequestFrameOnce(TbState, kind) IN
       /\ tbLatch' = st.latch
       /\ tbFrames' = st.frames
    /\ tbBurst' = [tbBurst EXCEPT ![kind] = @ + 1]
    /\ tbLast' = kind
    /\ UNCHANGED <<tbHandlers, tbRuns, notTb>>

\* The browser runs an animation frame.
TbAnimationFrame ==
    /\ tbLast \notin {"none", "constructor"}
    /\ tbRuns < MaxToolbarFrames
    /\ LET st == RunToolbarFrame([latch |-> tbLatch, frames |-> <<>>], tbFrames) IN
       /\ tbLatch' = st.latch
       /\ tbFrames' = st.frames
    /\ tbBurst' = [k \in FrameKinds |->
                     IF Count(tbFrames, k) > 0 THEN 0 ELSE tbBurst[k]]
    /\ tbRuns' = tbRuns + 1
    /\ tbLast' = "frame"
    /\ UNCHANGED <<tbHandlers, notTb>>

\* destroy(): deregisters the resize and the scroll handler.
TbDestroy ==
    /\ tbLast \notin {"none", "constructor"}
    /\ tbHandlers # {}
    /\ tbHandlers' = {}
    /\ tbLast' = "destroy"
    /\ UNCHANGED <<tbLatch, tbFrames, tbBurst, tbRuns, notTb>>

\* No toolbar on the page.
TbUnused ==
    /\ tbHandlers = {}
    /\ tbLatch = [k \in FrameKinds |-> FALSE]
    /\ tbFrames = <<>>
    /\ tbBurst = [k \in FrameKinds |-> 0]
    /\ tbRuns = 0
    /\ tbLast = "none"

\* new MDCToolbarFoundation(adapter)
TbInit ==
    /\ tbHandlers = {}
    /\ tbLatch = [k \in FrameKinds |-> FALSE]
    /\ tbFrames = <<>>
    /\ tbBurst = [k \in FrameKinds |-> 0]
    /\ tbRuns = 0
    /\ tbLast = "constructor"

TbNext ==
    \/ TbInitCall
    \/ \E kind \in FrameKinds : TbTrigger(kind)
    \/ TbAnimationFrame
    \/ TbDestroy

(***************************************************************************)
(*    MDCRippleFoundation (seen through mdc-ripple's deactivation tests)   *)
(*                                                                         *)
(* One interaction may reach the ripple as pointer, touch and mouse events *)
(* at once.  The first down event activates the ripple; the deactivation   *)
(* UX runs on the release that pairs with the activating event, and the    *)
(* activation state is given up on mouseup, the last event of the flow.    *)
(* Activation and deactivation do their work in an animation frame.        *)
(***************************************************************************)

\* Activations accepted in one run of the model.
MaxActivations == 2

\* Animation-frame callbacks of the ripple waiting at one time, at most.
MaxRippleFrames == 3

\* Runs of the deactivation UX for one activation after which no release
\* event is delivered any more.
MaxReleases == 2

DownEvents == {"pointerdown", "touchstart", "mousedown"}
UpEvents == {"pointerup", "touchend", "mouseup"}
Programmatic == "programmatic"

\* The activation event a release event pairs with.
DeactivationActivationPair(type) ==
    CASE type = "pointerup" -> "pointerdown"
      [] type = "touchend" -> "touchstart"
      [] type = "mouseup" -> "mousedown"

RpCycles == 1..MaxActivations

RpState ==
    [activated |-> rpActivated, activationEvent |-> rpActivationEvent,
     frames |-> rpFrames, cycle |-> rpCycle, activationUX |-> rpActivationUX,
     deactivationUX |-> rpDeactivationUX]

\* activate_(e): nothing while the ripple is activated; else the state is set
\* and the activation UX is requested for the next frame.
Activate(st, type) ==
    IF st.activated THEN st
    ELSE [st EXCEPT !.activated = TRUE,
                    !.activationEvent = type,
                    !.cycle = @ + 1,
                    !.frames = Append(@, [kind |-> "activate", cycle |-> st.cycle + 1,
                                          ux |-> TRUE, actual |-> FALSE])]

\* A deactivation that runs its UX for every release event.
MutDeactivateAnyRelease(st, type) ==
    IF ~st.activated THEN st
    ELSE IF st.activationEvent = Programmatic
    THEN [st EXCEPT !.activated = FALSE,
                    !.activationEvent = "none",
                    !.frames = Append(@, [kind |-> "deactivate", cycle |-> st.cycle,
                                          ux |-> TRUE, actual |-> FALSE])]
    ELSE [st EXCEPT !.frames = Append(@, [kind |-> "deactivate", cycle |-> st.cycle,
                                          ux |-> TRUE, actual |-> type = "mouseup"])]

\* deactivate_(e): nothing while the ripple is not activated.  An activation
\* made by activate() ends at once and its UX is requested.  For an event the
\* UX is requested when the event pairs with the activating one, and the
\* state is given up in the frame when the event is mouseup.
Deactivate(st, type) ==
    IF ~st.activated THEN st
    ELSE IF st.activationEvent = Programmatic
    THEN [st EXCEPT !.activated = FALSE,
                    !.activationEvent = "none",
                    !.frames = Append(@, [kind |-> "deactivate", cycle |-> st.cycle,
                                          ux |-> TRUE, actual |-> FALSE])]
    ELSE LET needsDeactivationUX ==
                 DeactivationActivationPair(type) = st.activationEvent
             needsActualDeactivation == type = "mouseup" IN
         [st EXCEPT !.frames = Append(@, [kind |-> "deactivate", cycle |-> st.cycle,
                                          ux |-> needsDeactivationUX,
                                          actual |-> needsActualDeactivation])]

\* One requested callback: the activation UX, or the deactivation UX and the
\* return to the default activation state.
RunRippleCallback(st, cb) ==
    IF cb.kind = "activate"
    THEN [st EXCEPT !.activationUX[cb.cycle] = @ + 1]
    ELSE LET s == IF cb.ux THEN [st EXCEPT !.deactivationUX[cb.cycle] = @ + 1]
                  ELSE st IN
         IF cb.actual
         THEN [s EXCEPT !.activated = FALSE, !.activationEvent = "none"]
         ELSE s

\* One animation frame: the callbacks requested before it run in order.
RECURSIVE RunRippleFrame(_, _)
RunRippleFrame(st, due) ==
    IF due = <<>> THEN st
    ELSE RunRippleFrame(RunRippleCallback(st, Head(due)), Tail(due))

RpRecord(op, requested) == [op |-> op, requested |-> requested]

\* What one handler did to the ripple; the events seen are those since the
\* last activation was accepted.
RpCall(op, st) ==
    /\ rpLast.op # "none"
    /\ Len(st.frames) <= MaxRippleFrames
    /\ rpActivated' = st.activated
    /\ rpActivationEvent' = st.activationEvent
    /\ rpFrames' = st.frames
    /\ rpCycle' = st.cycle
    /\ rpActivationUX' = st.activationUX
    /\ rpDeactivationUX' = st.deactivationUX
    /\ rpSeen' = IF st.cycle # rpCycle THEN {op} ELSE rpSeen \cup {op}
    /\ rpRepeat' = (rpRepeat \/ (st.cycle = rpCycle /\ op \in rpSeen))
    /\ rpLast' = RpRecord(op, SubSeq(st.frames, Len(rpFrames) + 1, Len(st.frames)))
    /\ UNCHANGED notRp

\* The handler of a pointerdown, touchstart or mousedown event.
RpDown ==
    \E type \in DownEvents :
        /\ rpActivated \/ rpCycle < MaxActivations
        /\ RpCall(type, Activate(RpState, type))

\* The handler of a pointerup, touchend or mouseup event; the model stops
\* releasing once the deactivation UX of the activation ran MaxReleases times.
RpUp ==
    \E type \in UpEvents :
        /\ rpCycle > 0 => rpDeactivationUX[rpCycle] < MaxReleases
        /\ RpCall(type, Deactivate(RpState, type))

\* activate()
RpActivate ==
    /\ rpActivated \/ rpCycle < MaxActivations
    /\ RpCall("activate", Activate(RpState, Programmatic))

\* deactivate(), called for an activation made by activate()
RpDeactivate ==
    /\ rpActivated => rpActivationEvent = Programmatic
    /\ RpCall("deactivate", Deactivate(RpState, Programmatic))

\* The browser runs an animation frame.
RpAnimationFrame ==
    /\ rpLast.op # "none"
    /\ rpFrames # <<>>
    /\ LET st == RunRippleFrame([RpState EXCEPT !.frames = <<>>], rpFrames) IN
       /\ rpActivated' = st.activated
       /\ rpActivationEvent' = st.activationEvent
       /\ rpFrames' = st.frames
       /\ rpActivationUX' = st.activationUX
       /\ rpDeactivationUX' = st.deactivationUX
    /\ rpLast' = RpRecord("frame", <<>>)
    /\ UNCHANGED <<rpCycle, rpSeen, rpRepeat, notRp>>

RpIdle ==
    /\ rpActivated = FALSE
    /\ rpActivationEvent = "none"
    /\ rpFrames = <<>>
    /\ rpCycle = 0
    /\ rpActivationUX = [c \in RpCycles |-> 0]
    /\ rpDeactivationUX = [c \in RpCycles |-> 0]
    /\ rpSeen = {}
    /\ rpRepeat = FALSE

\* No ripple on the page.
RpUnused == RpIdle /\ rpLast = RpRecord("none", <<>>)

\* foundation.init(), the handlers registered and the layout frame run
RpInit == RpIdle /\ rpLast = RpRecord("init", <<>>)

RpNext ==
    \/ RpDown
    \/ RpUp
    \/ RpActivate
    \/ RpDeactivate
    \/ RpAnimationFrame

(***************************************************************************)
(*      MDCSimpleMenuFoundation (seen through its keydown tests)           *)
(*                                                                         *)
(* The keydown handler moves the focus among the items on the arrow keys   *)
(* and wraps Tab and Shift+Tab at the two ends of the menu; a Tab that the *)
(* handler does not prevent is carried out by the browser, which focuses   *)
(* the next or the previous item.                                          *)
(***************************************************************************)

\* Largest number of items of a menu.
MaxItems == 3

\* getFocusedItemIndex() when the menu itself, not an item, has the focus.
NoItem == -1

\* The focus has left the menu.
Outside == -2

SmKeys == {"Tab", "ArrowUp", "ArrowDown", "Space", "Enter"}

SmEvents == [key : SmKeys, shiftKey : BOOLEAN, ctrlKey : BOOLEAN]

\* The arrow keys without the wraparound at the ends of the menu.
MutHandleKeyboardDownNoWrap(n, focused, evt) ==
    IF evt.ctrlKey THEN [focus |-> <<>>, prevented |-> FALSE]
    ELSE [focus |-> IF evt.key = "ArrowUp" /\ focused > 0 THEN <<focused - 1>>
                    ELSE IF evt.key = "ArrowDown" /\ focused < n - 1 THEN <<focused + 1>>
                    ELSE <<>>,
          prevented |-> evt.key \in {"ArrowUp", "ArrowDown", "Space"}
                        \/ (evt.key = "Tab" /\ focused = (IF evt.shiftKey THEN 0 ELSE n - 1))]

\* handleKeyboardDown_(evt) with n items and the focus on item focused: the
\* focusItemAtIndex calls it makes and whether it prevents the default action.
HandleKeyboardDown(n, focused, evt) ==
    LET lastItemIndex == n - 1
        isTab == evt.key = "Tab"
        isArrowUp == evt.key = "ArrowUp"
        isArrowDown == evt.key = "ArrowDown"
        isSpace == evt.key = "Space"
    IN  IF evt.ctrlKey THEN [focus |-> <<>>, prevented |-> FALSE]
        ELSE IF evt.shiftKey /\ isTab /\ focused = 0
             THEN [focus |-> <<lastItemIndex>>, prevented |-> TRUE]
        ELSE IF ~evt.shiftKey /\ isTab /\ focused = lastItemIndex
             THEN [focus |-> <<0>>, prevented |-> TRUE]
        ELSE [focus |->
                  IF isArrowUp
                  THEN IF focused = 0 \/ focused = NoItem
                       THEN <<lastItemIndex>> ELSE <<focused - 1>>
                  ELSE IF isArrowDown
                  THEN IF focused = lastItemIndex \/ focused = NoItem
                       THEN <<0>> ELSE <<focused + 1>>
                  ELSE <<>>,
              prevented |-> isArrowUp \/ isArrowDown \/ isSpace]

\* What the browser does with a key the handler did not prevent: Tab focuses
\* the next item, Shift+Tab the previous one; Shift+Tab on the menu itself
\* takes the focus out of the menu.
DefaultAction(n, focused, evt) ==
    IF evt.key # "Tab" \/ evt.ctrlKey THEN focused
    ELSE IF evt.shiftKey
         THEN IF focused = NoItem THEN Outside ELSE focused - 1
         ELSE focused + 1

SmRecord(op, evt, focus, prevented) ==
    [op |-> op, evt |-> evt, focus |-> focus, prevented |-> prevented]

NoKey == [key |-> "none", shiftKey |-> FALSE, ctrlKey |-> FALSE]

\* Clicks and keyup events on the menu: the type, the key by name or by
\* keyCode, and whether Ctrl is held.
SmSelectEvents ==
    {[type |-> "click", key |-> "", keyCode |-> 0, ctrlKey |-> FALSE]}
    \cup [type : {"keyup"}, key : {"Enter", "Space", "Escape", "Tab"},
          keyCode : {0}, ctrlKey : BOOLEAN]
    \cup [type : {"keyup"}, key : {""}, keyCode : {13, 32}, ctrlKey : {FALSE}]

\* The selection state sel: queued holds the index the pending
\* selected-trigger timeout will notify (<<>>: no timeout pending); calls are
\* the adapter's notifications of the step.
\* A selecting event that queues its item also while a selection is queued.
MutHandlePossibleSelectedNoDebounce(sel, targetIdx) ==
    IF targetIdx < 0 THEN sel ELSE [sel EXCEPT !.queued = <<targetIdx>>]

\* handlePossibleSelected_(evt), with targetIdx the adapter's
\* getIndexForEventTarget(evt.target): a target that is no item is ignored, and
\* so is any while a selection is queued; else the timeout is set.
HandlePossibleSelected(sel, targetIdx) ==
    IF targetIdx < 0 THEN sel
    ELSE IF sel.queued # <<>> THEN sel
    ELSE [sel EXCEPT !.queued = <<targetIdx>>]

\* handleKeyboardUp_(evt): nothing with a modifier held; Enter and Space select
\* the item, Escape notifies the cancel and closes the menu.
HandleKeyboardUp(sel, evt, targetIdx) ==
    LET isEnter == evt.key = "Enter" \/ evt.keyCode = 13
        isSpace == evt.key = "Space" \/ evt.keyCode = 32
        isEscape == evt.key = "Escape" \/ evt.keyCode = 27 IN
    IF evt.ctrlKey THEN sel
    ELSE IF isEnter \/ isSpace THEN HandlePossibleSelected(sel, targetIdx)
    ELSE IF isEscape THEN [sel EXCEPT !.calls = <<"notifyCancel">>, !.closed = TRUE]
    ELSE sel

SmSelRecord(queued, op, evt, target, calls, closed) ==
    [queued |-> queued, op |-> op, evt |-> evt, target |-> target,
     calls |-> calls, closed |-> closed]

SmSelIdle ==
    SmSelRecord(<<>>, "none",
                [type |-> "", key |-> "", keyCode |-> 0, ctrlKey |-> FALSE],
                -1, <<>>, FALSE)

\* A click or a keyup whose target is an item of the menu or (-1) none.
SmSelectEvent ==
    \E evt \in SmSelectEvents : \E target \in -1..(smNumItems - 1) :
        LET sel == [smSel EXCEPT !.op = evt.type, !.evt = evt, !.target = target,
                                 !.calls = <<>>, !.closed = FALSE]
            r == IF evt.type = "click" THEN HandlePossibleSelected(sel, target)
                 ELSE HandleKeyboardUp(sel, evt, target) IN
        /\ smLast.op # "none"
        /\ smSel' = r
        /\ smFocused' = IF r.closed THEN Outside ELSE smFocused
        /\ UNCHANGED <<smNumItems, smLast, notSm>>

\* SELECTED_TRIGGER_DELAY has elapsed: the timeout is over, the menu closes
\* and the selection of the queued index is notified.
SmSelectedTrigger ==
    /\ smLast.op # "none"
    /\ smSel.queued # <<>>
    /\ smSel' = [smSel EXCEPT !.queued = <<>>, !.op = "selectedTrigger",
                              !.evt = SmSelIdle.evt, !.target = -1,
                              !.calls = <<"notifySelected", smSel.queued[1]>>,
                              !.closed = TRUE]
    /\ smFocused' = Outside
    /\ UNCHANGED <<smNumItems, smLast, notSm>>

\* A keydown event on the open menu.
SmKeydown ==
    \E evt \in SmEvents :
        LET r == HandleKeyboardDown(smNumItems, smFocused, evt) IN
        /\ smLast.op # "none"
        /\ smFocused # Outside
        /\ smFocused' = IF r.focus # <<>> THEN r.focus[Len(r.focus)]
                        ELSE IF r.prevented THEN smFocused
                        ELSE DefaultAction(smNumItems, smFocused, evt)
        /\ smLast' = SmRecord("keydown", evt, r.focus, r.prevented)
        /\ UNCHANGED <<smNumItems, smSel, notSm>>

\* open(), to the end of its animation: the menu itself is focused.
SmOpen ==
    /\ smLast.op # "none"
    /\ smFocused' = NoItem
    /\ smLast' = SmRecord("open", NoKey, <<>>, FALSE)
    /\ UNCHANGED <<smNumItems, smSel, notSm>>

\* No simple menu on the page.
SmUnused ==
    /\ smNumItems = 0
    /\ smFocused = Outside
    /\ smLast = SmRecord("none", NoKey, <<>>, FALSE)
    /\ smSel = SmSelIdle

\* An open menu of one to MaxItems items, the focus on the menu itself.
SmInit ==
    /\ smNumItems \in 1..MaxItems
    /\ smFocused = NoItem
    /\ smLast = SmRecord("open", NoKey, <<>>, FALSE)
    /\ smSel = SmSelIdle

SmNext == SmKeydown \/ SmOpen

\* The selecting events, the timeout of a queued selection, and the menu
\* opened again after it closed.
SmSelectionNext == SmSelectEvent \/ SmSelectedTrigger \/ SmOpen

(***************************************************************************)
(*      MDCMenuFoundation (seen through its keydown and click tests)       *)
(*                                                                         *)
(* Space, Enter and a click select the list item they are in: the menu     *)
(* notifies, closes its surface, toggles the checkbox of the item and,     *)
(* once the surface has closed, moves the selected class of the selection  *)
(* group of the item.  An event target is named by the list item it is in. *)
(***************************************************************************)

\* Items of the list, by index, and the selection groups of the menu.
NumMenuItems == 3

NumGroups == 2

\* Close-animation timeouts that may be pending at once.
MaxTimers == 2

MnItems == 0..(NumMenuItems - 1)

MnGroups == 1..NumGroups

\* getElementIndex of a target that is in no item of the list.
NotInList == -1

MnTargets == MnItems \cup {NotInList}

MnCall(m, a) == [m |-> m, a |-> a]

\* adapter.getSelectedElementIndex(selectionGroup): the first item of the
\* group with the selected class, -1 when there is none.
GetSelectedElementIndex(groupOf, selected, g) ==
    LET in == {i \in selected : groupOf[i] = g} IN
    IF in = {} THEN -1 ELSE CHOOSE i \in in : \A j \in in : i <= j

\* A selection that does not deselect the previous item of the group.
MutHandleSelectionGroupKeepsPrevious(st, g, index) ==
    [st EXCEPT !.selected = @ \cup {index},
               !.calls = @ \o <<MnCall("addClassToElementAtIndex", index),
                                MnCall("addAttributeToElementAtIndex", index)>>]

\* handleSelectionGroup_(selectionGroup, index)
HandleSelectionGroup(st, g, index) ==
    LET selectedIndex == GetSelectedElementIndex(st.groupOf, st.selected, g)
        removed == IF selectedIndex >= 0
                   THEN [st EXCEPT !.selected = @ \ {selectedIndex},
                                   !.calls = @ \o
                                      <<MnCall("removeAttributeFromElementAtIndex", selectedIndex),
                                        MnCall("removeClassFromElementAtIndex", selectedIndex)>>]
                   ELSE st
    IN  [removed EXCEPT !.selected = @ \cup {index},
                        !.calls = @ \o <<MnCall("addClassToElementAtIndex", index),
                                         MnCall("addAttributeToElementAtIndex", index)>>]

\* The callback of the timeout handleSelection sets: the menu has closed.
CloseAnimationEnd(st, index) ==
    IF st.groupOf[index] # 0 THEN HandleSelectionGroup(st, st.groupOf[index], index)
    ELSE st

\* handleSelection(listItem), for the list item of index
HandleSelection(st, index) ==
    IF index < 0 THEN st
    ELSE LET toggled == IF st.checked[index] = "none" THEN st
                        ELSE [st EXCEPT !.checked[index] = IF @ = "on" THEN "off" ELSE "on",
                                        !.calls = @ \o <<MnCall("toggleCheckbox", index)>>]
         IN  [toggled EXCEPT !.calls = <<MnCall("notifySelected", index),
                                         MnCall("closeSurface", index)>> \o @,
                             !.timers = @ \o <<index>>]

\* handleAction_(evt): the event selects the list item its target is in.
HandleAction(st, target) ==
    IF target = NotInList THEN st
    ELSE [HandleSelection(st, target) EXCEPT !.prevented = TRUE]

\* handleKeydown(evt)
MnHandleKeydown(st, key, target) ==
    LET acted == IF key \in {"Space", "Enter"} THEN HandleAction(st, target) ELSE st IN
    IF key \in {"Space", "Enter", "Tab"}
    THEN [acted EXCEPT !.calls = @ \o <<MnCall("closeSurface", NotInList)>>]
    ELSE acted

MnState ==
    [groupOf |-> mnGroupOf, selected |-> mnSelected, checked |-> mnChecked,
     timers |-> mnTimers, calls |-> <<>>, prevented |-> FALSE]

MnRecord(op, target, calls, prevented) ==
    [op |-> op, target |-> target, calls |-> calls, prevented |-> prevented]

MnApply(op, target, st) ==
    /\ mnLast.op # "none"
    /\ Len(st.timers) <= MaxTimers
    /\ mnSelected' = st.selected
    /\ mnChecked' = st.checked
    /\ mnTimers' = st.timers
    /\ mnLast' = MnRecord(op, target, st.calls, st.prevented)
    /\ UNCHANGED <<mnGroupOf, mnDestroyed, notMn>>

\* A keydown event inside the menu.
MnKeydown ==
    \E key \in {"Space", "Enter", "Tab", "ArrowDown"}, target \in MnTargets :
        /\ ~mnDestroyed
        /\ MnApply(key, target, MnHandleKeydown(MnState, key, target))

\* A click inside the menu.
MnClick ==
    \E target \in MnTargets :
        /\ ~mnDestroyed
        /\ MnApply("click", target, HandleAction(MnState, target))

\* The oldest pending timeout fires.
MnTimeout ==
    /\ mnTimers # <<>>
    /\ MnApply("timeout", mnTimers[1],
               CloseAnimationEnd([MnState EXCEPT !.timers = Tail(@)], mnTimers[1]))

\* destroy(): the timeout set last is cleared and the surface closed.
MnDestroy ==
    /\ mnLast.op # "none"
    /\ ~mnDestroyed
    /\ mnDestroyed' = TRUE
    /\ mnTimers' = IF mnTimers = <<>> THEN <<>> ELSE SubSeq(mnTimers, 1, Len(mnTimers) - 1)
    /\ mnLast' = MnRecord("destroy", NotInList, <<MnCall("closeSurface", NotInList)>>, FALSE)
    /\ UNCHANGED <<mnGroupOf, mnSelected, mnChecked, notMn>>

\* Markup in which every selection group has at most one selected item.
OneSelectedPerGroup(groupOf, selected) ==
    /\ \A i \in selected : groupOf[i] # 0
    /\ \A i, j \in selected : groupOf[i] = groupOf[j] => i = j

\* A selection group is one element of the list: its items follow one
\* another, and the groups are numbered in document order.
GroupsInDocumentOrder(groupOf) ==
    /\ \A i, j, k \in MnItems :
           i < j /\ j < k /\ groupOf[i] # 0 /\ groupOf[i] = groupOf[k]
              => groupOf[j] = groupOf[i]
    /\ \A i, j \in MnItems :
           i < j /\ groupOf[i] # 0 /\ groupOf[j] # 0 => groupOf[i] <= groupOf[j]
    /\ \A g \in MnGroups :
           (\E i \in MnItems : groupOf[i] = g) /\ g > 1
              => \E i \in MnItems : groupOf[i] = g - 1

\* No menu on the page.
MnUnused ==
    /\ mnGroupOf = [i \in MnItems |-> 0]
    /\ mnSelected = {}
    /\ mnChecked = [i \in MnItems |-> "none"]
    /\ mnTimers = <<>>
    /\ mnDestroyed = FALSE
    /\ mnLast = MnRecord("none", NotInList, <<>>, FALSE)

\* A menu whose items are in selection groups or in none; the first item may
\* have a checkbox.
MnInit ==
    /\ mnGroupOf \in [MnItems -> 0..NumGroups]
    /\ GroupsInDocumentOrder(mnGroupOf)
    /\ mnSelected \in SUBSET MnItems
    /\ OneSelectedPerGroup(mnGroupOf, mnSelected)
    /\ \E c \in {NotInList, 0} :
           mnChecked = [i \in MnItems |-> IF i = c THEN "off" ELSE "none"]
    /\ mnTimers = <<>>
    /\ mnDestroyed = FALSE
    /\ mnLast = MnRecord("init", NotInList, <<>>, FALSE)

MnNext == MnKeydown \/ MnClick \/ MnTimeout \/ MnDestroy

(***************************************************************************)
(*   MDCToolbarFoundation, the styles of a scroll frame (seen through the  *)
(*   'on scroll' tests of mdc-toolbar/foundation.test.js)                  *)
(*                                                                         *)
(* Lengths are in pixels.  The flexible expansion ratio is the rational    *)
(* num / den; the foundation divides by the flexible expansion height plus *)
(* a small delta, so that a toolbar without flexible height divides by no  *)
(* zero.                                                                   *)
(***************************************************************************)

\* The height H of a toolbar row (numbers.TOOLBAR_ROW_HEIGHT), in a unit that
\* keeps the scroll positions of the tests apart.
RowHeight == 4

\* 1 / delta, the delta of the division that gives the ratio.
DeltaInverse == 10000

\* 1 / 0.001, the tolerance of the ratio the tests accept.
ToleranceInverse == 1000

\* getFirstRowElementOffsetHeight() and getOffsetHeight(), in a toolbar of
\* one row and in the toolbar of scrollEventMock.
TsLayouts ==
    {[firstRow |-> RowHeight, total |-> RowHeight],
     [firstRow |-> 3 * RowHeight, total |-> 4 * RowHeight]}

\* hasClass(FIXED), hasClass(TOOLBAR_ROW_FLEXIBLE), hasClass(FIXED_LASTROW)
TsConfigs ==
    [fixed : BOOLEAN, flexible : BOOLEAN, lastrow : BOOLEAN, layout : TsLayouts]

\* The viewport scroll position scrollEventMock sets; flexExpansionRatio is
\* given in halves (0, 1 or 2).
ScrollEventMock(halves, isOutOfThreshold) ==
    LET flexibleExpansionHeight == RowHeight * 2
        maxTranslateYDistance == RowHeight
        scrollThreshold == flexibleExpansionHeight + maxTranslateYDistance
    IN  IF halves > 0 THEN ((2 - halves) * flexibleExpansionHeight) \div 2
        ELSE IF isOutOfThreshold THEN scrollThreshold + 1
        ELSE scrollThreshold - 1

\* The scroll positions of the tests, and the flexible expansion height of
\* their toolbar.
ScrollPositions ==
    {ScrollEventMock(h, o) : h \in 0..2, o \in BOOLEAN} \cup {2 * RowHeight}

\* calculations_: the key heights of a toolbar.
Calculations(cfg) ==
    LET fixedLastrow == cfg.fixed /\ cfg.lastrow IN
    [flexibleExpansionHeight |-> cfg.layout.firstRow - RowHeight,
     maxTranslateYDistance |-> IF fixedLastrow THEN cfg.layout.total - cfg.layout.firstRow
                               ELSE 0,
     scrollThreshold |-> (IF fixedLastrow THEN cfg.layout.total ELSE cfg.layout.firstRow)
                         - RowHeight]

\* A ratio that is not cut at 0.
MutRatioNotCutAtZero(calc, scrollTop) ==
    LET den == calc.flexibleExpansionHeight * DeltaInverse + 1
        num == den - scrollTop * DeltaInverse
    IN  [num |-> IF num < 0 THEN den ELSE num, den |-> den]

\* getFlexibleExpansionRatio_(scrollTop):
\* max(0, 1 - scrollTop / (flexibleExpansionHeight + delta))
GetFlexibleExpansionRatio(calc, scrollTop) ==
    LET den == calc.flexibleExpansionHeight * DeltaInverse + 1
        num == den - scrollTop * DeltaInverse
    IN  [num |-> IF num < 0 THEN 0 ELSE num, den |-> den]

\* approximate(value, 0, 0.001) of the tests
ApproximatelyZero(r) == r.num * ToleranceInverse < r.den

\* updateToolbarFlexibleState_(flexibleExpansionRatio)
UpdateToolbarFlexibleState(classes, r) ==
    (classes \ {"FLEXIBLE_MAX", "FLEXIBLE_MIN"})
        \cup (IF r.num = r.den THEN {"FLEXIBLE_MAX"}
              ELSE IF r.num = 0 THEN {"FLEXIBLE_MIN"} ELSE {})

\* updateToolbarFixedState_(scrollTop): the distance the toolbar is moved up
TranslateDistance(calc, scrollTop) ==
    LET d == scrollTop - calc.flexibleExpansionHeight
        capped == IF d < calc.maxTranslateYDistance THEN d ELSE calc.maxTranslateYDistance
    IN  IF capped < 0 THEN 0 ELSE capped

UpdateToolbarFixedState(classes, calc, scrollTop) ==
    IF TranslateDistance(calc, scrollTop) = calc.maxTranslateYDistance
    THEN classes \cup {"FIXED_AT_LAST_ROW"}
    ELSE classes \ {"FIXED_AT_LAST_ROW"}

TsRecord(op, scrollTop, updated, ratio, styles) ==
    [op |-> op, scrollTop |-> scrollTop, updated |-> updated, ratio |-> ratio,
     styles |-> styles]

NoRatio == [num |-> 0, den |-> 1]

\* updateToolbarStyles_(), the callback of the frame the scroll handler
\* requests, with the viewport scrolled to scrollTop.
TsScrollFrame ==
    \E scrollTop \in ScrollPositions :
        LET calc == Calculations(tsConfig)
            hasScrolledOutOfThreshold == scrollTop > calc.scrollThreshold
            ratio == GetFlexibleExpansionRatio(calc, scrollTop)
            flexed == UpdateToolbarFlexibleState(tsClasses, ratio)
            fixedLastrow == tsConfig.fixed /\ tsConfig.lastrow
        IN  /\ tsLast.op # "none"
            /\ IF hasScrolledOutOfThreshold /\ tsExecutedLastChange
               THEN /\ tsLast' = TsRecord("scroll", scrollTop, FALSE, NoRatio, {})
                    /\ UNCHANGED <<tsClasses, tsExecutedLastChange>>
               ELSE /\ tsClasses' = IF fixedLastrow
                                    THEN UpdateToolbarFixedState(flexed, calc, scrollTop)
                                    ELSE flexed
                    /\ tsExecutedLastChange' = hasScrolledOutOfThreshold
                    /\ tsLast' = TsRecord("scroll", scrollTop, TRUE, ratio,
                                     (IF fixedLastrow THEN {"transform"} ELSE {})
                                     \cup (IF tsConfig.flexible /\ tsConfig.fixed
                                           THEN {"height"} ELSE {}))
            /\ UNCHANGED <<tsConfig, notTs>>

\* No toolbar whose styles are followed on the page.
TsUnused ==
    /\ tsConfig = [fixed |-> FALSE, flexible |-> FALSE, lastrow |-> FALSE,
                   layout |-> [firstRow |-> RowHeight, total |-> RowHeight]]
    /\ tsExecutedLastChange = FALSE
    /\ tsClasses = {}
    /\ tsLast = TsRecord("none", 0, FALSE, NoRatio, {})

\* init() on a toolbar of any of the configurations
TsInit ==
    /\ tsConfig \in TsConfigs
    /\ tsExecutedLastChange = FALSE
    /\ tsClasses = {}
    /\ tsLast = TsRecord("init", 0, FALSE, NoRatio, {})

TsNext == TsScrollFrame

(***************************************************************************)
(*   The constructor of a component (seen through mdc-base/component.test) *)
(*   with initialize() and initialSyncWithDOM() of MDCChipSet, MDCDataTable *)
(*   and the test's FakeComponent.                                         *)
(*                                                                         *)
(* ct is the component under construction: the class, the extra arguments  *)
(* of the constructor call, whether a foundation was passed in, and what   *)
(* the steps run so far have made of its fields.                           *)
(***************************************************************************)

\* Extra positional arguments of a constructor call, at most.
MaxArgs == 2

CtKinds == {"FakeComponent", "MDCChipSet", "MDCDataTable"}

\* The extra arguments a class is constructed with: any values for the fake
\* component, no argument or a factory for the chip set and the data table.
CtArgs(kind) ==
    IF kind = "FakeComponent" THEN SeqsUpTo({"foo", "42"}, MaxArgs)
    ELSE {<<>>, <<"factory">>}

\* A constructor that syncs with the DOM before it initializes the foundation.
MutConstructorSyncsFirst ==
    <<"initialize", "foundation_ =", "initialSyncWithDOM", "foundation_.init">>

\* The statements of the constructor after this.root_ = root, in their order.
ConstructorSteps ==
    <<"initialize", "foundation_ =", "foundation_.init", "initialSyncWithDOM">>

\* A call made on a field that is still undefined throws a TypeError, which
\* ends the constructor.
Called(c, method) == [c EXCEPT !.trace = Append(@, method)]
Throw(c) == [c EXCEPT !.threw = TRUE]

\* this.initialize(...args)
Initialize(c) ==
    LET c1 == [Called(c, "initialize") EXCEPT !.initializeArgs = c.args] IN
    CASE c.kind = "FakeComponent" ->
           [c1 EXCEPT !.initializeComesBeforeFoundation = (c.foundation = "undefined")]
      [] c.kind = "MDCChipSet" ->
           [c1 EXCEPT !.factory = TRUE, !.chips = c.chipElements]
      [] c.kind = "MDCDataTable" -> [c1 EXCEPT !.factory = TRUE]

\* this.foundation_ = foundation === undefined ? this.getDefaultFoundation()
\*                                              : foundation
AssignFoundation(c) ==
    IF c.given THEN [c EXCEPT !.foundation = "given"]
    ELSE [Called(c, "getDefaultFoundation") EXCEPT
             !.foundation = "default",
             !.chipsAtFoundation = (c.chips # -1)]

\* this.foundation_.init()
FoundationInit(c) ==
    IF c.foundation = "undefined" THEN Throw(c)
    ELSE [Called(c, "foundation_.init") EXCEPT !.inited = TRUE]

\* this.initialSyncWithDOM(): the chip set walks chips_ and listens to the
\* three chip events; the data table adds its three listeners and calls
\* layout(), which is the foundation's.
InitialSyncWithDOM(c) ==
    LET c1 == Called(c, "initialSyncWithDOM") IN
    CASE c.kind = "FakeComponent" -> [c1 EXCEPT !.synced = TRUE]
      [] c.kind = "MDCChipSet" ->
           IF c.chips = -1 THEN Throw(c1)
           ELSE [c1 EXCEPT !.listeners = ChipEvents,
                           !.initedAtListen = c.inited, !.synced = TRUE]
      [] c.kind = "MDCDataTable" ->
           LET c2 == [c1 EXCEPT !.listeners = DtEvents,
                                !.initedAtListen = c.inited] IN
           IF c.foundation = "undefined" THEN Throw(c2)
           ELSE [c2 EXCEPT !.synced = TRUE]

RunStep(c, step) ==
    CASE step = "initialize" -> Initialize(c)
      [] step = "foundation_ =" -> AssignFoundation(c)
      [] step = "foundation_.init" -> FoundationInit(c)
      [] step = "initialSyncWithDOM" -> InitialSyncWithDOM(c)

\* The fields of a component before its constructor has run a statement
\* (chips: -1 while chips_ is undefined).
CtFresh(kind, args, given, chipElements) ==
    [kind |-> kind, args |-> args, given |-> given, chipElements |-> chipElements,
     pc |-> 0, trace |-> <<>>, threw |-> FALSE,
     initializeArgs |-> <<"unset">>, initializeComesBeforeFoundation |-> FALSE,
     factory |-> FALSE, chips |-> -1, foundation |-> "undefined",
     chipsAtFoundation |-> FALSE, inited |-> FALSE, listeners |-> {},
     initedAtListen |-> FALSE, synced |-> FALSE]

\* The constructor runs its next statement.
CtStep ==
    /\ ct.kind # "none"
    /\ ct.pc < Len(ConstructorSteps)
    /\ ~ct.threw
    /\ ct' = [RunStep(ct, ConstructorSteps[ct.pc + 1]) EXCEPT !.pc = ct.pc + 1]
    /\ UNCHANGED notCt

\* No constructor call on the page.
CtUnused == ct = CtFresh("none", <<>>, FALSE, 0)

\* new Class(root, foundation, ...args) is entered: with or without a
\* foundation passed in; a chip set on a root with some chip elements.
CtInit ==
    \E kind \in CtKinds : \E args \in CtArgs(kind) : \E given \in BOOLEAN :
    \E chipElements \in 0..MaxInitChips :
        /\ kind # "MDCChipSet" => chipElements = 0
        /\ ct = CtFresh(kind, args, given, chipElements)

CtNext == CtStep

(***************************************************************************)
(*                            Specifications                               *)
(***************************************************************************)

\* The auto-init module and a document.
InitAutoInit ==
    /\ CtUnused
    /\ AiInit /\ CsUnused /\ DtUnused /\ SelUnused /\ CfUnused /\ TbUnused /\ RpUnused
    /\ SmUnused /\ MnUnused /\ TsUnused

SpecAutoInit == InitAutoInit /\ [][AiNext]_vars

\* A page that holds one component, a chip set or a data table (the two share
\* no state).
InitComponents ==
    /\ CtUnused
    /\ AiUnused /\ SelUnused /\ CfUnused /\ TbUnused /\ RpUnused /\ SmUnused /\ MnUnused /\ TsUnused
    /\ \/ CsInit /\ DtUnused
       \/ CsUnused /\ DtInit

NextComponents == CsNext \/ DtNext

SpecComponents == InitComponents /\ [][NextComponents]_vars

\* A page that holds a chip set whose chips are selected and unselected
\* through the adapter of the set.
InitChipSelection ==
    /\ CtUnused
    /\ AiUnused /\ DtUnused /\ SelUnused /\ CfUnused /\ TbUnused /\ RpUnused
    /\ SmUnused /\ MnUnused /\ TsUnused
    /\ CsInit

SpecChipSelection == InitChipSelection /\ [][CsSelectionNext]_vars

\* A page that holds a chip set, seen through the calls its foundation makes
\* of the adapter's removeChip and setSelected while the page adds chips.
InitChipSetAdapter ==
    /\ CtUnused
    /\ AiUnused /\ DtUnused /\ SelUnused /\ CfUnused /\ TbUnused /\ RpUnused
    /\ SmUnused /\ MnUnused /\ TsUnused
    /\ CsInit

NextChipSetAdapter ==
    \/ \E elId \in ElIds : AddChip(elId)
    \/ \E chipId \in ChipIds : DispatchChipEvent(REMOVAL_EVENT, chipId)
    \/ \E chipId \in ChipIds : \E selected \in BOOLEAN : SetSelected(chipId, selected)

SpecChipSetAdapter == InitChipSetAdapter /\ [][NextChipSetAdapter]_vars

\* A page that holds one foundation, of a select, of a chip or of a toolbar.
InitFoundations ==
    /\ CtUnused
    /\ AiUnused /\ CsUnused /\ DtUnused /\ RpUnused /\ SmUnused /\ MnUnused /\ TsUnused
    /\ \/ SelInit /\ CfUnused /\ TbUnused
       \/ SelUnused /\ CfInit /\ TbUnused
       \/ SelUnused /\ CfUnused /\ TbInit

NextFoundations == SelNext \/ CfNext \/ TbNext

SpecFoundations == InitFoundations /\ [][NextFoundations]_vars

\* A page that holds a ripple.
InitRipple ==
    /\ CtUnused
    /\ AiUnused /\ CsUnused /\ DtUnused /\ SelUnused /\ CfUnused /\ TbUnused
    /\ SmUnused /\ MnUnused /\ TsUnused
    /\ RpInit

SpecRipple == InitRipple /\ [][RpNext]_vars

\* A page that holds a simple menu.
InitSimpleMenu ==
    /\ CtUnused
    /\ AiUnused /\ CsUnused /\ DtUnused /\ SelUnused /\ CfUnused /\ TbUnused /\ RpUnused
    /\ MnUnused /\ TsUnused
    /\ SmInit

SpecSimpleMenu == InitSimpleMenu /\ [][SmNext]_vars

\* A page that holds a simple menu whose items are clicked and selected by key.
InitSimpleMenuSelection ==
    /\ CtUnused
    /\ AiUnused /\ CsUnused /\ DtUnused /\ SelUnused /\ CfUnused /\ TbUnused /\ RpUnused
    /\ MnUnused /\ TsUnused
    /\ SmInit

SpecSimpleMenuSelection == InitSimpleMenuSelection /\ [][SmSelectionNext]_vars

\* A page that holds a menu over a list.
InitMenu ==
    /\ CtUnused
    /\ AiUnused /\ CsUnused /\ DtUnused /\ SelUnused /\ CfUnused /\ TbUnused /\ RpUnused
    /\ SmUnused /\ TsUnused
    /\ MnInit

SpecMenu == InitMenu /\ [][MnNext]_vars

\* A page that holds a toolbar whose scroll frames are followed.
InitToolbarStyles ==
    /\ CtUnused
    /\ AiUnused /\ CsUnused /\ DtUnused /\ SelUnused /\ CfUnused /\ TbUnused /\ RpUnused
    /\ SmUnused /\ MnUnused
    /\ TsInit

SpecToolbarStyles == InitToolbarStyles /\ [][TsNext]_vars

\* A page on which a component is constructed.
InitConstruction ==
    /\ AiUnused /\ CsUnused /\ DtUnused /\ SelUnused /\ CfUnused /\ TbUnused /\ RpUnused
    /\ SmUnused /\ MnUnused /\ TsUnused
    /\ CtInit

SpecConstruction == InitConstruction /\ [][CtNext]_vars

(***************************************************************************)
(* Claims about mdc-auto-init.                                             *)
(***************************************************************************)

\* A step of the model that is a call of mdcAutoInit.
IsScanStep == aiLast'.op = "mdcAutoInit"

\* Node n carries, before the scan, a component under its own attribute name.
Tagged(n) == nodeAttr[n] \in Names /\ HasOwnProperty(nodeProps, n, nodeAttr[n])

\* The scan got as far as node n and did not throw there.
Passed(last, n) == last.threw = "none" \/ last.threwAt > n

\* Node n makes the scan throw: its attribute is empty, or registry[name] is
\* no function.
Unmapped(n) ==
    \/ nodeAttr[n] = ""
    \/ nodeAttr[n] \in Names /\ ~IsFunction(RegistryGet(registry, nodeAttr[n]))

C2_ThrowsOnUnmapped ==
    [][IsScanStep =>
         \A n \in Nodes :
            Unmapped(n) =>
              /\ aiLast'.threw # "none"
              /\ aiLast'.threwAt <= n
              /\ aiLast'.threwAt = n =>
                    aiLast'.threw = (IF nodeAttr[n] = "" THEN "NameMissing"
                                     ELSE "NotInRegistry")
              /\ aiLast'.endEvents = 0
              /\ aiLast'.returned = <<>>
              /\ nodeProps'[n] = nodeProps[n]]_vars

\* C2 witness: a scan threw at a node whose name had been registered, had got a
\* component, and was deregistered afterwards.
C2_Witness ==
    /\ aiLast.op = "mdcAutoInit"
    /\ aiLast.threw = "NotInRegistry"
    /\ \E n \in Nodes :
          /\ aiLast.threwAt = n
          /\ nodeAttr[n] \in RegNames
          /\ attachCount[n][nodeAttr[n]] = 1

\* C11: a scan that returns normally dispatches MDCAutoInit:End exactly once,
\* as the last thing it does, after one attachTo or one warning for each
\* marked node; also when no node is marked or every node is skipped.
C11_OneEndEventAfterAllNodes ==
    [][IsScanStep /\ aiLast'.threw = "none"
       => LET t == aiLast'.trace
              marked == {n \in Nodes : nodeAttr[n] # NoAttr} IN
          /\ aiLast'.endEvents = 1
          /\ Len(t) = Cardinality(marked) + 1
          /\ t[Len(t)] = <<"emit", 0>>
          /\ \A i \in 1..(Len(t) - 1) : t[i][1] \in {"attachTo", "warn"}
          /\ \A n \in marked : \E i \in 1..(Len(t) - 1) : t[i][2] = n]_vars

\* C11 witness: a scan that skipped every node of the document, all of them
\* marked, has dispatched its one end event.
C11_Witness ==
    /\ aiLast.op = "mdcAutoInit"
    /\ aiLast.threw = "none"
    /\ Len(aiLast.warned) = NumNodes
    /\ aiLast.trace[NumNodes + 1] = <<"emit", 0>>


\* The step is a register call.
IsRegisterStep == aiLast'.op = "register"

\* C15: register throws when the constructor given is not a function, and
\* then leaves the registry as it was: a mapping the name already has is
\* neither removed nor replaced.
C15_RegisterThrowsAndKeepsRegistry ==
    [][IsRegisterStep /\ aiLast'.arg.ctor \notin Ctors
       => /\ aiLast'.threw = "InvalidCtor"
          /\ aiLast'.warned = <<>>
          /\ registry' = registry]_vars

\* C15 witness: a register call with a non-function threw while the name had a
\* mapping, which is still there.
C15_Witness ==
    /\ aiLast.op = "register"
    /\ aiLast.threw = "InvalidCtor"
    /\ aiLast.arg.was \in Ctors
    /\ registry[aiLast.arg.name] = aiLast.arg.was

\* C16: registering a constructor under a name that is already registered
\* does not throw; it calls warn once and replaces the mapping, and a scan
\* attaches a node with the constructor registered under its name at the time
\* of the scan.
C16_OverrideWarnsAndReplaces ==
    [][/\ IsRegisterStep /\ aiLast'.arg.ctor \in Ctors /\ aiLast'.arg.was \in Ctors
          => /\ aiLast'.threw = "none"
             /\ aiLast'.warned = <<aiLast'.arg.name>>
             /\ registry' = [registry EXCEPT ![aiLast'.arg.name] = aiLast'.arg.ctor]
       /\ IsScanStep
          => \A i \in 1..Len(aiLast'.attached) :
                LET n == aiLast'.attached[i] IN
                nodeProps'[n][nodeAttr[n]].ctor = registry[nodeAttr[n]]]_vars

\* C16 witness: a name registered with one constructor was registered again
\* with another one, which is now the one mapped; warn was called.
C16_Witness ==
    /\ aiLast.op = "register"
    /\ aiLast.threw = "none"
    /\ aiLast.arg.was \in Ctors
    /\ aiLast.arg.ctor # aiLast.arg.was
    /\ aiLast.warned = <<aiLast.arg.name>>
    /\ registry[aiLast.arg.name] = aiLast.arg.ctor

\* C17: deregister(name) removes the mapping of name and changes no other
\* mapping, so it changes nothing when name has none; deregisterAll() leaves
\* no mapping at all.
C17_DeregisterRemovesExactlyOne ==
    [][/\ aiLast'.op = "deregister"
          => /\ aiLast'.threw = "none"
             /\ registry'[aiLast'.arg] = Absent
             /\ \A k \in Names \ {aiLast'.arg} : registry'[k] = registry[k]
             /\ registry[aiLast'.arg] = Absent => registry' = registry
       /\ aiLast'.op = "deregisterAll"
          => /\ aiLast'.threw = "none"
             /\ \A k \in Names : registry'[k] = Absent]_vars

\* C17 witness: deregister removed one of two mappings and the other one is
\* still there.
C17_Witness ==
    /\ aiLast.op = "deregister"
    /\ registry[aiLast.arg] = Absent
    /\ \E k \in Names : registry[k] \in Ctors

(***************************************************************************)
(* Claims about the components' teardown.                                  *)
(***************************************************************************)

\* C3: once destroy() has run, an event the component had subscribed to invokes
\* no handler: the chip interaction, selection and removal events of MDCChipSet,
\* and the header-row change and click and the content change of MDCDataTable.
C3_NoHandlerAfterDestroy ==
    /\ (csDestroys >= 1 /\ csLast.op = "dispatch") => csLast.handled = "none"
    /\ (dtDestroys >= 1 /\ dtLast.op = "dispatch") => dtLast.handled = "none"
    /\ csDestroys >= 1 => csListeners = {}
    /\ dtDestroys >= 1 => dtListeners = {}

\* C3 witness: a destroyed data table received a header-row click.
C3_Witness ==
    /\ dtDestroys >= 1
    /\ dtLast.op = "dispatch"
    /\ dtLast.evt = HEADER_ROW_CLICK

\* The chip objects made so far, and those the set owns now.
ChipsMade == 1..chipObjs
ChipsOwned == {chips_[i].obj : i \in 1..Len(chips_)}

\* C4: until destroy() every chip the set owns is alive and every chip removed
\* from it was destroyed once; right after the (one) destroy() every chip the
\* set ever owned, the added ones included, has been destroyed exactly once.
C4_EveryChipDestroyedOnce ==
    /\ csDestroys = 0 =>
          \A o \in ChipsMade :
             chipDestroyed[o] = (IF o \in ChipsOwned THEN 0 ELSE 1)
    /\ (csDestroys = 1 /\ csLast.op = "destroy") =>
          \A o \in ChipsMade : chipDestroyed[o] = 1

\* C4 witness: destroy() on a set that had got a chip through addChip, had lost
\* one through a removal and still owned some.
C4_Witness ==
    /\ csDestroys = 1
    /\ csLast.op = "destroy"
    /\ chipObjs > MaxInitChips
    /\ Len(chips_) >= 1
    /\ Len(chips_) < chipObjs

\* The checkbox objects made so far, and those the table holds now.
CheckboxesMade == 1..checkboxObjs
CheckboxesHeld ==
    (IF headerRowCheckbox # NoCheckbox THEN {headerRowCheckbox} ELSE {})
    \cup Range(rowCheckboxList.list)

\* C5: until destroy() the checkboxes the table holds are alive and every
\* checkbox replaced by a re-registration was destroyed once; right after the
\* (one) destroy() every checkbox ever made has been destroyed exactly once.
C5_EveryCheckboxDestroyedOnce ==
    /\ dtDestroys = 0 =>
          \A o \in CheckboxesMade :
             checkboxDestroyed[o] = (IF o \in CheckboxesHeld THEN 0 ELSE 1)
    /\ (dtDestroys = 1 /\ dtLast.op = "destroy") =>
          \A o \in CheckboxesMade : checkboxDestroyed[o] = 1

\* C5 witness: destroy() on a table whose checkboxes had been re-registered by
\* a later layout(), with rows still holding checkboxes.
C5_Witness ==
    /\ dtDestroys = 1
    /\ dtLast.op = "destroy"
    /\ dtLast.threw = "none"
    /\ Len(rowCheckboxList.list) >= 1
    /\ checkboxObjs > 1 + Len(rowCheckboxList.list)

(***************************************************************************)
(* Claims about the selection of chips in a chip set.                      *)
(***************************************************************************)

\* A set of three chips with three different ids is asked, through
\* adapter.setSelected, to select its second chip.
SelectsSecondOfThree ==
    /\ Len(chips_) = 3
    /\ \A i, j \in 1..3 : chips_[i].id = chips_[j].id => i = j
    /\ csLast'.op = "setSelected"
    /\ csLast'.chipId = chips_[2].id
    /\ csLast'.selected

\* C13: in a chip set of three chips, selecting the second chip gives that
\* chip the selected class and aria-checked="true", and leaves the selected
\* class and the aria-checked attribute of the two other chips as they were.
C13_SelectMarksOnlyThatChip ==
    [][SelectsSecondOfThree
       => /\ chipDom'[chips_[2].obj].selected
          /\ chipDom'[chips_[2].obj].ariaChecked = "true"
          /\ \A i \in {1, 3} : chipDom'[chips_[i].obj] = chipDom[chips_[i].obj]]_vars

(***************************************************************************)
(* Claims about the foundations of the select and of the chip.             *)
(***************************************************************************)

\* How often a handler called method m of t (the adapter, the event, ...).
NumCalls(calls, t, m) ==
    Cardinality({i \in DOMAIN calls : calls[i].t = t /\ calls[i].m = m})

\* How often it called it with argument a.
NumCallsWith(calls, t, m, a) ==
    Cardinality({i \in DOMAIN calls :
                    calls[i].t = t /\ calls[i].m = m /\ calls[i].a = a})

\* What the select's adapter answers before the step.
ReportsMenuOpen == "isMenuOpen" \in selProvided /\ selMenuOpen
ReportsFocused == "hasClass" \in selProvided /\ "FOCUSED" \in selClasses
ReportsRequired == "hasClass" \in selProvided /\ "REQUIRED" \in selClasses
ReportsValue ==
    IF "getValue" \in selProvided /\ selIndex >= 0 THEN Options[selIndex + 1] ELSE ""

\* C6: after destroy() of a chip foundation, an animation frame runs no
\* callback of the foundation that calls the adapter (in particular none that
\* calls setStyleProperty).  The code does not keep this: TLC finds the frame
\* requested before destroy() calling setStyleProperty after it.
C6_NoAdapterCallAfterDestroy ==
    [][cfDestroyed /\ cfLast'.op = "animationFrame"
       => \A i \in DOMAIN cfLast'.calls : cfLast'.calls[i].t # "adapter"]_vars

\* C7, as the code has it: handleClick calls setRippleCenter(normalizedX) and
\* openMenu once each when the adapter reports the menu closed, whether or not
\* the select is focused, and calls neither when the menu is open.
C7_ClickOpensClosedMenu ==
    [][selLast'.op = "handleClick"
       => LET n == IF ReportsMenuOpen THEN 0 ELSE 1 IN
          /\ NumCalls(selLast'.calls, "adapter", "openMenu") = n
          /\ NumCalls(selLast'.calls, "adapter", "setRippleCenter") = n
          /\ NumCallsWith(selLast'.calls, "adapter", "setRippleCenter",
                          selLast'.arg) = n
          /\ (n = 1 /\ "openMenu" \in selProvided) => selMenuOpen' = TRUE]_vars

\* C7 witness: a click on a select that is not focused and whose menu is
\* closed has opened the menu.
C7_Witness ==
    /\ selProvided = SelectDefaultAdapter
    /\ selLast.op = "handleClick"
    /\ "FOCUSED" \notin selClasses
    /\ NumCalls(selLast.calls, "adapter", "openMenu") = 1
    /\ selMenuOpen

\* C7 as stated: handleClick calls openMenu only when the select is focused
\* and the menu is closed.
C7_ClickOpensOnlyWhenFocused ==
    [][/\ selProvided = SelectDefaultAdapter
       /\ selLast'.op = "handleClick"
       /\ NumCalls(selLast'.calls, "adapter", "openMenu") > 0
       => "FOCUSED" \in selClasses /\ ~selMenuOpen]_vars

\* C8: handleKeydown calls openMenu and event.preventDefault once each when
\* the menu is closed, the select is focused and the key is Enter, Space,
\* ArrowUp or ArrowDown by name or by keyCode 13, 32, 38, 40; otherwise it
\* calls neither.
C8_KeydownOpensMenu ==
    [][selLast'.op = "handleKeydown"
       => LET e == selLast'.event
              opens == /\ ~ReportsMenuOpen
                       /\ ReportsFocused
                       /\ \/ e.key \in {"Enter", "Space", "ArrowUp", "ArrowDown"}
                          \/ e.keyCode \in {13, 32, 38, 40}
              n == IF opens THEN 1 ELSE 0 IN
          /\ NumCalls(selLast'.calls, "adapter", "openMenu") = n
          /\ NumCalls(selLast'.calls, "event", "preventDefault") = n]_vars

\* C8 witness: ArrowUp, known by its keyCode only, has opened the menu of a
\* focused select and was prevented.
C8_Witness ==
    /\ selProvided = SelectDefaultAdapter
    /\ selLast.op = "handleKeydown"
    /\ selLast.event = [key |-> "", keyCode |-> 38]
    /\ "FOCUSED" \in selClasses
    /\ NumCalls(selLast.calls, "adapter", "openMenu") = 1
    /\ NumCalls(selLast.calls, "event", "preventDefault") = 1

\* C9, as the code has it: a blur with the menu closed removes the focused
\* class, deactivates the bottom line, calls floatLabel once with whether the
\* value is non-empty (so an empty value collapses the label, also when the
\* select is required and invalid), emits no change, and calls
\* setValid(checkValidity()) exactly when the select has the required class.
C9_BlurCollapsesAndValidatesRequired ==
    [][selLast'.op = "handleBlur" /\ ~ReportsMenuOpen
       => LET calls == selLast'.calls
              valid == /\ "checkValidity" \in selProvided
                       /\ "REQUIRED" \notin selClasses \/ Value(selIndex) # ""
              nValid == IF ReportsRequired THEN 1 ELSE 0
              nFloat == IF "hasClass" \in selProvided /\ "FOCUSED" \in selClasses'
                        THEN 0 ELSE 1 IN
          /\ NumCallsWith(calls, "adapter", "removeClass", "FOCUSED") = 1
          /\ "removeClass" \in selProvided => "FOCUSED" \notin selClasses'
          /\ NumCalls(calls, "adapter", "deactivateBottomLine") = 1
          /\ NumCalls(calls, "adapter", "floatLabel") = nFloat
          /\ NumCallsWith(calls, "adapter", "floatLabel",
                          ReportsValue # "") = nFloat
          /\ NumCalls(calls, "adapter", "notifyChange") = 0
          /\ NumCalls(calls, "adapter", "setValid") = nValid
          /\ NumCallsWith(calls, "adapter", "setValid", valid) = nValid]_vars

\* C9 witness: a select that is not required, with an empty value, was blurred:
\* the label was collapsed and validity was not touched.
C9_Witness ==
    /\ selProvided = SelectDefaultAdapter
    /\ selLast.op = "handleBlur"
    /\ "REQUIRED" \notin selClasses
    /\ "FOCUSED" \notin selClasses
    /\ ~selMenuOpen
    /\ Value(selIndex) = ""
    /\ NumCallsWith(selLast.calls, "adapter", "floatLabel", FALSE) = 1
    /\ NumCalls(selLast.calls, "adapter", "setValid") = 0

\* C9 as stated: a blur with the menu closed leaves the focused state,
\* re-validates, and collapses the label if the value is empty and the select
\* is not required-and-invalid.
C9_BlurAlwaysValidates ==
    [][/\ selProvided = SelectDefaultAdapter
       /\ selLast'.op = "handleBlur"
       /\ ~selMenuOpen
       => /\ "FOCUSED" \notin selClasses'
          /\ NumCalls(selLast'.calls, "adapter", "setValid") >= 1
          /\ (Value(selIndex) = "" /\ ~("REQUIRED" \in selClasses /\ Value(selIndex) = ""))
                => NumCallsWith(selLast'.calls, "adapter", "floatLabel", FALSE) >= 1]_vars

C14_OnlyLatestIndexMarked ==
    [][/\ selProvided = SelectDefaultAdapter
       /\ selLast'.op = "setSelectedIndex"
       /\ selLast'.arg \in -1..(Len(Options) - 1)
       => LET calls == selLast'.calls
              index == selLast'.arg IN
          /\ selIndex >= 0 /\ selIndex # index
             => /\ NumCallsWith(calls, "adapter", "removeClassAtIndex",
                                <<selIndex, "SELECTED_ITEM_CLASS">>) = 1
                /\ NumCallsWith(calls, "adapter", "removeAttributeAtIndex",
                                <<selIndex, "aria-selected">>) = 1
          /\ index >= 0
             => /\ NumCallsWith(calls, "adapter", "addClassAtIndex",
                                <<index, "SELECTED_ITEM_CLASS">>) = 1
                /\ NumCallsWith(calls, "adapter", "setAttributeAtIndex",
                                <<index, "aria-selected", "true">>) = 1
          /\ NumCalls(calls, "adapter", "addClassAtIndex") <= 1]_vars

\* C18: every setSelected(selected) call on a chip with a complete adapter
\* adds (true) or removes (false) the selected class and notifies the
\* selection exactly once, with the arguments (selected, false): the boolean
\* and shouldIgnore = false.  The code does not keep this: it calls
\* notifySelection with the boolean alone.
C18_SetSelectedNotifiesWithShouldIgnore ==
    [][cfProvided = ChipDefaultAdapter /\ cfLast'.op = "setSelected"
       => LET selected == cfLast'.arg IN
          /\ ("SELECTED" \in cfClasses') = selected
          /\ cfClasses' \ {"SELECTED"} = cfClasses \ {"SELECTED"}
          /\ NumCalls(cfLast'.calls, "adapter", "notifySelection") = 1
          /\ NumCallsWith(cfLast'.calls, "adapter", "notifySelection",
                          <<selected, FALSE>>) = 1]_vars

\* C19: handleInteraction(evt) on a chip with a complete adapter notifies the
\* interaction once when evt is a click or a keydown of Enter or of the space
\* bar, and not at all for any other event.  The code does not keep this: a
\* keydown of the space bar notifies nothing.
C19_InteractionOnClickEnterOrSpace ==
    [][cfProvided = ChipDefaultAdapter /\ cfLast'.op = "handleInteraction"
       => LET evt == cfLast'.evt
              isEnter == evt.key = "Enter" \/ evt.keyCode = 13
              isSpace == evt.key = " " \/ evt.keyCode = 32 IN
          NumCalls(cfLast'.calls, "adapter", "notifyInteraction")
             = (IF evt.type = "click" \/ isEnter \/ isSpace THEN 1 ELSE 0)]_vars

\* C20: a scroll trigger leaves exactly one scroll callback waiting for the
\* next animation frame, and a resize trigger exactly one resize callback,
\* however many triggers came before the frame; an animation frame runs the
\* callbacks that waited, so the next trigger of the kind requests exactly
\* one again.
C20_OnePendingFramePerKind ==
    [][/\ tbLast' \in FrameKinds
          => /\ Count(tbFrames', tbLast') = 1
             /\ Len(tbFrames') = Len(tbFrames)
                                  + (IF Count(tbFrames, tbLast') = 0 THEN 1 ELSE 0)
       /\ tbLast' = "frame"
          => /\ Count(tbFrames', "resize") = 0
             /\ Count(tbFrames', "scroll") <= 1
             /\ Count(tbFrames, "resize") = 0 => tbFrames' = <<>>]_vars

\* C20 witness: after a frame has run, a kind was triggered more than once and
\* has one callback waiting.
C20_Witness ==
    /\ tbLast \in FrameKinds
    /\ tbRuns >= 2
    /\ tbBurst[tbLast] >= 2
    /\ Count(tbFrames, tbLast) = 1

(***************************************************************************)
(* Claims about the ripple.                                                *)
(***************************************************************************)

\* C21: while the ripple is activated a further down event activates nothing;
\* a release event requests the deactivation UX exactly when it pairs with the
\* event that activated the ripple, so the redundant release of another
\* pointer type requests none; a ripple activated by an event gives up its
\* activation only in the frame after mouseup, and only then is a new
\* activation accepted.  Hence an interaction that delivers each event once
\* runs the activation UX once and the deactivation UX at most once.
C21_OverlappingPointerEventsFireOnce ==
    /\ [][/\ rpLast'.op \in DownEvents /\ rpActivated
             => /\ rpLast'.requested = <<>>
                /\ rpActivated'
                /\ rpActivationEvent' = rpActivationEvent
                /\ rpCycle' = rpCycle
          /\ rpLast'.op \in UpEvents /\ rpActivated /\ rpActivationEvent \in DownEvents
             => /\ Len(rpLast'.requested) = 1
                /\ rpLast'.requested[1].ux
                      = (DeactivationActivationPair(rpLast'.op) = rpActivationEvent)
                /\ rpActivated'
          /\ rpLast'.op \in UpEvents /\ ~rpActivated => rpLast'.requested = <<>>
          /\ rpActivated /\ rpActivationEvent \in DownEvents /\ ~rpActivated'
             => rpLast'.op = "frame" /\ "mouseup" \in rpSeen
          /\ rpCycle' # rpCycle => ~rpActivated]_vars
    /\ [](\A c \in RpCycles :
             /\ rpActivationUX[c] <= 1
             /\ ~rpRepeat => rpDeactivationUX[c] <= 1)

\* C21 witness: one interaction delivered all six events once; the activation
\* UX and the deactivation UX each ran once, and after the frame of mouseup
\* the ripple is free again.
C21_Witness ==
    /\ rpSeen = DownEvents \cup UpEvents
    /\ ~rpRepeat
    /\ rpCycle = 1
    /\ rpActivationUX[1] = 1
    /\ rpDeactivationUX[1] = 1
    /\ rpLast.op = "frame"
    /\ ~rpActivated

(***************************************************************************)
(*                        Claims about the menus                           *)
(***************************************************************************)

C23_SelectionGroupExclusive ==
    /\ [][/\ mnLast'.op = "timeout" /\ mnGroupOf[mnLast'.target] # 0
             => LET index == mnLast'.target
                    previous == GetSelectedElementIndex(mnGroupOf, mnSelected, mnGroupOf[index])
                IN  /\ mnSelected' = (mnSelected \ {previous}) \cup {index}
                    /\ previous >= 0
                       <=> MnCall("removeClassFromElementAtIndex", previous)
                              \in Range(mnLast'.calls)
                    /\ \A c \in Range(mnLast'.calls) :
                           c.m = "removeClassFromElementAtIndex" => c.a = previous
                    /\ \A c \in Range(mnLast'.calls) :
                           c.m = "addClassToElementAtIndex" => c.a = index
                    /\ MnCall("addClassToElementAtIndex", index) \in Range(mnLast'.calls)
          /\ mnLast'.op = "timeout" /\ mnGroupOf[mnLast'.target] = 0
             => mnSelected' = mnSelected /\ mnLast'.calls = <<>>
          /\ mnLast'.op # "timeout" => mnSelected' = mnSelected]_vars
    /\ [](\A i, j \in mnSelected : mnGroupOf[i] = mnGroupOf[j] => i = j)

\* The selected class moved from one item of a selection group to another.
C23_Witness ==
    /\ mnLast.op = "timeout"
    /\ \E c \in Range(mnLast.calls) :
           c.m = "removeClassFromElementAtIndex" /\ c.a # mnLast.target
    /\ mnLast.target \in mnSelected

(***************************************************************************)
(*                 Claims about the styles of the toolbar                  *)
(***************************************************************************)

\* The toolbar of scrollEventMock, fixed and flexible.
FixedFlexible ==
    /\ tsConfig.fixed /\ tsConfig.flexible /\ ~tsConfig.lastrow
    /\ tsConfig.layout = [firstRow |-> 3 * RowHeight, total |-> 4 * RowHeight]

C25_DefaultAdapterKeysAreTheListedMethods ==
    /\ selLast.op # "none" /\ selProvided = {}
           => SelectAdapterKeys(selProvided) = SelectAdapterMethodList
    /\ cfLast.op # "none" /\ cfProvided = {}
           => ChipAdapterKeys(cfProvided) = ChipAdapterMethodList

(***************************************************************************)
(*               Claims about a scan that throws, and a re-scan            *)
(***************************************************************************)

\* The node is marked with a constructor name and has the component of that
\* name defined on it.
AlreadyInitialized(props, n) ==
    /\ nodeAttr[n] \in Names
    /\ HasOwnProperty(props, n, nodeAttr[n])

\* C26, as stated: a scan that throws leaves no node instantiated or tagged
\* that was not so before the scan.
C26_ThrowingScanLeavesNoEffects ==
    [][aiLast'.op = "mdcAutoInit" /\ aiLast'.threw # "none"
          => /\ nodeProps' = nodeProps
             /\ attachCount' = attachCount
             /\ aiLast'.attached = <<>>]_vars

\* C26, amended: a scan that throws at a node keeps what it did to the nodes
\* before it: each of them that is marked is tagged with its component, those
\* that were not tagged before have been instantiated once by this scan, and
\* nothing is undone; the node that throws and the nodes after it are left as
\* they were, no component is returned and no end event is emitted.
C26_ThrowingScanKeepsEarlierNodes ==
    [][aiLast'.op = "mdcAutoInit" /\ aiLast'.threw # "none"
          => LET k == aiLast'.threwAt IN
             /\ k \in Nodes
             /\ \A n \in Nodes :
                   n < k /\ nodeAttr[n] # NoAttr
                      => /\ AlreadyInitialized(nodeProps', n)
                         /\ IF AlreadyInitialized(nodeProps, n)
                            THEN /\ nodeProps'[n] = nodeProps[n]
                                 /\ attachCount'[n] = attachCount[n]
                            ELSE /\ attachCount'[n][nodeAttr[n]]
                                       = attachCount[n][nodeAttr[n]] + 1
                                 /\ n \in Range(aiLast'.attached)
             /\ \A n \in Nodes :
                   n >= k => /\ nodeProps'[n] = nodeProps[n]
                             /\ attachCount'[n] = attachCount[n]
             /\ aiLast'.returned = <<>>
             /\ aiLast'.endEvents = 0]_vars

\* A scan attached the component of the first node and threw at the second;
\* the first node is still tagged.
C26_Witness ==
    /\ aiLast.op = "mdcAutoInit" /\ aiLast.threw # "none"
    /\ aiLast.threwAt = 2
    /\ aiLast.attached = <<1>>
    /\ AlreadyInitialized(nodeProps, 1)
    /\ attachCount[1][nodeAttr[1]] = 1

\* The scan reaches node n: it has not thrown at an earlier node.
ScanReaches(last, n) == last.threw = "none" \/ last.threwAt >= n

\* C27, as stated: a scan never throws at a node that is already initialized,
\* whether or not its constructor name is still registered; it warns about
\* the node and skips it.
C27_RescanNeverThrows ==
    [][aiLast'.op = "mdcAutoInit"
          => \A n \in Nodes :
                AlreadyInitialized(nodeProps, n) /\ ScanReaches(aiLast', n)
                   => /\ aiLast'.threwAt # n
                      /\ n \in Range(aiLast'.warned)]_vars

\* C27, amended: a scan that reaches a node that is already initialized warns
\* about it and skips it, without a throw, when the name of its constructor
\* is still registered to a function; when the name has been deregistered
\* since, the scan throws at the node, for the registry is looked up before
\* the node is looked at.  Either way the node keeps its component.
C27_RescanThrowsOnceDeregistered ==
    [][aiLast'.op = "mdcAutoInit"
          => \A n \in Nodes :
                AlreadyInitialized(nodeProps, n) /\ ScanReaches(aiLast', n)
                   => /\ IF IsFunction(RegistryGet(registry, nodeAttr[n]))
                         THEN /\ aiLast'.threwAt # n
                              /\ n \in Range(aiLast'.warned)
                         ELSE /\ aiLast'.threw = "NotInRegistry"
                              /\ aiLast'.threwAt = n
                              /\ n \notin Range(aiLast'.warned)
                      /\ nodeProps'[n] = nodeProps[n]
                      /\ attachCount'[n] = attachCount[n]]_vars

\* A scan threw at a node that an earlier scan had initialized and whose
\* constructor name is no longer registered.
C27_Witness ==
    /\ aiLast.op = "mdcAutoInit"
    /\ aiLast.threw = "NotInRegistry"
    /\ aiLast.threwAt \in Nodes
    /\ AlreadyInitialized(nodeProps, aiLast.threwAt)
    /\ attachCount[aiLast.threwAt][nodeAttr[aiLast.threwAt]] = 1
    /\ registry[nodeAttr[aiLast.threwAt]] = Absent

(***************************************************************************)
(*                  Claims about the removal of a chip                     *)
(***************************************************************************)

\* The step is a click or an Enter keydown on the trailing icon of a chip
\* that is removed on such an interaction.
ExitTriggeringInteraction ==
    /\ cfLast'.op = "handleTrailingIconInteraction"
    /\ cfLast'.evt.type = "click" \/ cfLast'.evt.key = "Enter" \/ cfLast'.evt.keyCode = 13
    /\ cfShouldRemove

\* C28: the chip notifies its removal only in handleTransitionEnd for a width
\* transition of the root element while the root carries the exit class; the
\* root gets the exit class only from beginExit or from an exit-triggering
\* interaction with the trailing icon, and has not got it when constructed,
\* so no removal is notified before one of the two; the end of a width
\* transition on a chip that is not exiting notifies nothing and neither adds
\* nor removes a class of the leading icon.
C28_RemovalOnlyAfterExitWidthTransition ==
    /\ [][/\ NumCalls(cfLast'.calls, "adapter", "notifyRemoval") > 0
             => /\ cfLast'.op = "handleTransitionEnd"
                /\ cfLast'.arg = <<"root", "width">>
                /\ "CHIP_EXIT" \in cfClasses
                /\ NumCalls(cfLast'.calls, "adapter", "notifyRemoval") = 1
          /\ "CHIP_EXIT" \in cfClasses' /\ "CHIP_EXIT" \notin cfClasses
             => cfLast'.op = "beginExit" \/ ExitTriggeringInteraction
          /\ /\ cfLast'.op = "handleTransitionEnd"
             /\ cfLast'.arg[2] = "width"
             /\ "CHIP_EXIT" \notin cfClasses
             => /\ \A i \in DOMAIN cfLast'.calls :
                      cfLast'.calls[i].m = "eventTargetHasClass"
                /\ cfClasses' = cfClasses /\ cfFrames' = cfFrames]_vars
    /\ [](cfLast.op = "constructor" => "CHIP_EXIT" \notin cfClasses)

\* The removal was notified at the end of the width transition of an exiting
\* chip.
C28_Witness ==
    /\ cfLast.op = "handleTransitionEnd"
    /\ cfLast.arg = <<"root", "width">>
    /\ "CHIP_EXIT" \in cfClasses
    /\ NumCalls(cfLast.calls, "adapter", "notifyRemoval") = 1

(***************************************************************************)
(*             Claims about the label and the change of a select           *)
(***************************************************************************)

\* C29: while the adapter reports the focused class, no call of handleChange,
\* layout, setValue or setSelectedIndex (nor of notchOutline itself) calls
\* floatLabel(false) or closeOutline, whatever the value of the select is.
C29_FocusedSelectKeepsLabelAndNotch ==
    [][/\ ReportsFocused
       /\ selLast'.op \in {"handleChange", "layout", "setValue", "setSelectedIndex",
                           "notchOutline"}
       => /\ NumCallsWith(selLast'.calls, "adapter", "floatLabel", FALSE) = 0
          /\ NumCalls(selLast'.calls, "adapter", "closeOutline") = 0]_vars

\* handleChange ran on a focused select with an outline and no value: it
\* asked for the outline and the focused class, and left label and notch.
C29_Witness ==
    /\ selProvided = SelectDefaultAdapter
    /\ selHasOutline
    /\ "FOCUSED" \in selClasses
    /\ selIndex = -1
    /\ selLast.op = "handleChange"
    /\ NumCalls(selLast.calls, "adapter", "hasOutline") = 1
    /\ NumCalls(selLast.calls, "adapter", "floatLabel") = 0
    /\ NumCalls(selLast.calls, "adapter", "closeOutline") = 0

\* C30: the select calls notifyChange exactly once in setValue, in
\* setSelectedIndex and in handleChange with didChange = true (the handling of
\* a change event), and not at all in handleChange with didChange = false nor
\* in any other call: getValue, setDisabled, layout, notchOutline, setValid,
\* isValid, and the handling of focus, blur, click, keydown, menu opened and
\* menu closed.
C30_ChangeNotifiedOncePerChange ==
    [][selLast'.op # "none"
       => LET n == NumCalls(selLast'.calls, "adapter", "notifyChange") IN
          /\ selLast'.op \in {"setValue", "setSelectedIndex"} => n = 1
          /\ selLast'.op = "handleChange" => n = (IF selLast'.arg THEN 1 ELSE 0)
          /\ selLast'.op \notin {"setValue", "setSelectedIndex", "handleChange"}
                => n = 0]_vars

\* handleChange(false) ran and notified nothing, on a select whose value is
\* not empty.
C30_Witness ==
    /\ selProvided = SelectDefaultAdapter
    /\ selIndex >= 0
    /\ selLast.op = "handleChange"
    /\ selLast.arg = FALSE
    /\ NumCalls(selLast.calls, "adapter", "getValue") = 1
    /\ NumCalls(selLast.calls, "adapter", "notifyChange") = 0

(***************************************************************************)
(* Claims about blur and disabling of the select.                          *)
(***************************************************************************)

\* C31: a blur received while the adapter reports the menu open changes
\* nothing: the handler asks isMenuOpen and makes no other call (it removes no
\* class, does not deactivate the bottom line, touches neither label nor
\* outline, updates no validity, notifies no change), and the classes, the
\* selected index and the menu stay as they were.
C31_BlurWithOpenMenuChangesNothing ==
    [][selLast'.op = "handleBlur" /\ ReportsMenuOpen
       => /\ Len(selLast'.calls) = 1
          /\ selLast'.calls[1].t = "adapter" /\ selLast'.calls[1].m = "isMenuOpen"
          /\ ~selLast'.threw
          /\ selClasses' = selClasses
          /\ selIndex' = selIndex
          /\ selMenuOpen' = selMenuOpen]_vars

\* C31 witness: a focused, required select with an empty value was blurred
\* while its menu was open, and is still focused.
C31_Witness ==
    /\ selProvided = SelectDefaultAdapter
    /\ selLast.op = "handleBlur"
    /\ selMenuOpen
    /\ {"FOCUSED", "REQUIRED"} \subseteq selClasses
    /\ Value(selIndex) = ""
    /\ Len(selLast.calls) = 1

\* C32: from setDisabled(true) until the next setDisabled(false), that is
\* while the root carries the disabled class, the menu is closed after every
\* call of the foundation and no call has asked the adapter to open it.  The
\* code does not keep this: handleClick and handleKeydown never read the
\* disabled state, and TLC finds a click on a disabled select opening the menu.
C32_DisabledSelectNeverOpensMenu ==
    [][selProvided = SelectDefaultAdapter /\ "DISABLED" \in selClasses'
       => /\ ~selMenuOpen'
          /\ NumCalls(selLast'.calls, "adapter", "openMenu") = 0]_vars

(***************************************************************************)
(* Claims about destroy() of the components.                               *)
(***************************************************************************)

\* C33: a destroy() of a component tears down its foundation too: each
\* destroy() of an MDCChipSet and each destroy() of an MDCDataTable invokes
\* foundation.destroy() once.  The code does not keep this for the data table:
\* its destroy() never calls super.destroy().
C33_DestroyTearsDownFoundation ==
    [][/\ csLast'.op = "destroy" /\ csDestroys' = csDestroys + 1
            => csFoundationDestroys' = csFoundationDestroys + 1
       /\ dtLast'.op = "destroy" /\ dtDestroys' = dtDestroys + 1
            => dtFoundationDestroys' = dtFoundationDestroys + 1]_vars

\* C34, as stated: a destroy() after the first has no further effect: it does
\* not throw and destroys no chip and no checkbox again.
C34_SecondDestroyHasNoEffect ==
    [][/\ csLast'.op = "destroy" /\ csDestroys >= 1
            => chipDestroyed' = chipDestroyed
       /\ dtLast'.op = "destroy" /\ dtDestroys >= 1
            => dtLast'.threw = "none" /\ checkboxDestroyed' = checkboxDestroyed]_vars

\* C34, as the code has it: a destroy() after the first finds no listener left
\* to remove and keeps the component's children, but calls destroy() once more
\* on every chip in chips_, and on the header-row checkbox and on every row
\* checkbox the table holds; on a table that holds no header-row checkbox it
\* throws, as the first destroy() did.
C34_SecondDestroyDestroysChildrenAgain ==
    [][/\ csLast'.op = "destroy" /\ csDestroys >= 1
            => /\ csListeners = {} /\ csListeners' = {}
               /\ chips_' = chips_
               /\ \A o \in ChipObjs :
                     chipDestroyed'[o] = chipDestroyed[o]
                         + (IF o \in ChipsOwned THEN 1 ELSE 0)
       /\ dtLast'.op = "destroy" /\ dtDestroys >= 1
            => /\ dtListeners = {} /\ dtListeners' = {}
               /\ headerRowCheckbox' = headerRowCheckbox
               /\ rowCheckboxList' = rowCheckboxList
               /\ (dtLast'.threw = "TypeError") = (headerRowCheckbox = NoCheckbox)
               /\ \A o \in CheckboxObjs :
                     checkboxDestroyed'[o] = checkboxDestroyed[o]
                         + (IF headerRowCheckbox = NoCheckbox THEN 0
                            ELSE (IF o = headerRowCheckbox THEN 1 ELSE 0)
                                 + Count(rowCheckboxList.list, o))]_vars

\* C34 witness: a chip set that owns a chip was destroyed twice, and the chip
\* has been destroyed twice.
C34_Witness ==
    /\ csDestroys = 2
    /\ csLast.op = "destroy"
    /\ Len(chips_) >= 1
    /\ \A o \in ChipsOwned : chipDestroyed[o] = 2

\* C35: destroy() of a data table for which no header-row checkbox and no row
\* checkboxes were ever registered completes without throwing and removes the
\* three listeners.  The code does not keep this: the listeners are removed,
\* then this.headerRowCheckbox.destroy() throws on the undefined field.
C35_DestroyWithoutCheckboxesCompletes ==
    [][/\ dtLast'.op = "destroy"
       /\ headerRowCheckbox = NoCheckbox
       /\ ~rowCheckboxList.defined
       => dtLast'.threw = "none" /\ dtListeners' = {}]_vars

(***************************************************************************)
(* Claims about the exit of a chip.                                        *)
(***************************************************************************)

\* The callbacks of one kind among the requested ones.
FramesOf(frames, cb) == SelectSeq(frames, LAMBDA f : f.cb = cb)

\* The calls of setStyleProperty for a width other than '0'.
ExplicitWidthCalls(calls) ==
    {i \in DOMAIN calls : /\ calls[i].t = "adapter"
                          /\ calls[i].m = "setStyleProperty"
                          /\ calls[i].a[1] = "width" /\ calls[i].a[2] # "0"}

\* C36: the end of the opacity transition of an exiting chip sets no style; it
\* requests one frame callback that carries the width computed then.  A frame
\* sets, for each such callback, width to that width and then padding and
\* margin to 0, and requests the callback that the frame after runs to set
\* width to 0.  A frame sets width to 0 only for callbacks requested by an
\* earlier frame, which had applied the explicit width, and nothing but a
\* frame requests such a callback.
C36_ExplicitWidthAFrameBeforeZeroWidth ==
    [][/\ cfLast'.op # "animationFrame"
            => /\ NumCalls(cfLast'.calls, "adapter", "setStyleProperty") = 0
               /\ FramesOf(cfFrames', "zeroWidth") = FramesOf(cfFrames, "zeroWidth")
       /\ ( /\ cfLast'.op = "handleTransitionEnd"
            /\ cfLast'.arg = <<"root", "opacity">>
            /\ "eventTargetHasClass" \in cfProvided /\ "CHIP_EXIT" \in cfClasses )
            => cfFrames' = Append(cfFrames,
                   [cb |-> "setWidth",
                    chipWidth |-> IF "getComputedStyleValue" \in cfProvided
                                  THEN "100px" ELSE ""])
       /\ cfLast'.op = "animationFrame"
            => LET calls == cfLast'.calls
                   sets == FramesOf(cfFrames, "setWidth")
                   zeros == FramesOf(cfFrames, "zeroWidth") IN
               /\ Len(calls) = 3 * Len(sets) + Len(zeros)
               /\ NumCallsWith(calls, "adapter", "setStyleProperty",
                               <<"width", "0">>) = Len(zeros)
               /\ Cardinality(ExplicitWidthCalls(calls)) = Len(sets)
               /\ \A i \in ExplicitWidthCalls(calls) :
                     /\ \E k \in DOMAIN sets : calls[i].a[2] = sets[k].chipWidth
                     /\ i + 2 <= Len(calls)
                     /\ calls[i + 1].a = <<"padding", "0">>
                     /\ calls[i + 2].a = <<"margin", "0">>
               /\ cfFrames' = [k \in DOMAIN sets |->
                                  [cb |-> "zeroWidth", chipWidth |-> ""]]]_vars

\* C36 witness: the second frame after the end of the opacity transition of an
\* exiting chip has set width to 0 and nothing else, and no callback is left.
C36_Witness ==
    /\ cfProvided = ChipDefaultAdapter
    /\ "CHIP_EXIT" \in cfClasses
    /\ cfLast.op = "animationFrame"
    /\ Len(cfLast.calls) = 1
    /\ cfLast.calls[1].a = <<"width", "0">>
    /\ cfFrames = <<>>

\* C37: handleTrailingIconInteraction(evt) on a chip with a complete adapter
\* notifies the trailing-icon interaction once for every activating event (a
\* click, or a keydown of Enter or of the space bar) and for no other, and it
\* adds the exit class exactly when the event is activating and
\* shouldRemoveOnTrailingIconClick is true, so never after
\* setShouldRemoveOnTrailingIconClick(false).  The code does not keep this:
\* a keydown of the space bar neither notifies nor starts the exit.
C37_TrailingIconExitsOnActivatingEvent ==
    [][cfProvided = ChipDefaultAdapter
       /\ cfLast'.op = "handleTrailingIconInteraction"
       => LET evt == cfLast'.evt
              isEnter == evt.key = "Enter" \/ evt.keyCode = 13
              isSpace == evt.key = " " \/ evt.keyCode = 32
              activating == evt.type = "click" \/ isEnter \/ isSpace IN
          /\ NumCalls(cfLast'.calls, "adapter", "notifyTrailingIconInteraction")
                = (IF activating THEN 1 ELSE 0)
          /\ NumCallsWith(cfLast'.calls, "adapter", "addClass", "CHIP_EXIT")
                = (IF activating /\ cfShouldRemove THEN 1 ELSE 0)]_vars

(***************************************************************************)
(* Claims about the adapter of the chip set.                               *)
(***************************************************************************)

\* The places of the chips with the given id in the list.
ChipsWithId(chipId) == {i \in 1..Len(chips_) : chips_[i].id = chipId}

\* C38: adapter.removeChip(id), which the removal event of a chip brings
\* about, destroys once and removes exactly one chip, the (first) owned chip
\* with that id; the other chips stay, the same objects in the same order, with
\* what the page shows of them, and none of them is destroyed.  With an id that
\* no owned chip has, removeChip leaves the list and every chip as they were,
\* and so does adapter.setSelected.
C38_RemoveChipRemovesExactlyThatChip ==
    [][/\ csLast'.op = "dispatch" /\ csLast'.handled = "handleChipRemoval"
            => LET hits == ChipsWithId(csLast'.chipId) IN
               /\ chipDom' = chipDom
               /\ IF hits = {}
                  THEN chips_' = chips_ /\ chipDestroyed' = chipDestroyed
                  ELSE LET k == CHOOSE i \in hits : \A j \in hits : i <= j IN
                       /\ Len(chips_') = Len(chips_) - 1
                       /\ \A i \in 1..Len(chips_') :
                             chips_'[i] = (IF i < k THEN chips_[i] ELSE chips_[i + 1])
                       /\ \A o \in ChipObjs :
                             chipDestroyed'[o] = chipDestroyed[o]
                                 + (IF o = chips_[k].obj THEN 1 ELSE 0)
       /\ csLast'.op = "setSelected" /\ ChipsWithId(csLast'.chipId) = {}
            => /\ chips_' = chips_
               /\ chipDestroyed' = chipDestroyed
               /\ chipDom' = chipDom
               /\ csLast'.handled = "none"]_vars

\* C38 witness: the removal of the first of the chips the set was constructed
\* with; the chip made second is now the first of the list, and alive.
C38_Witness ==
    /\ csLast.op = "dispatch"
    /\ csLast.handled = "handleChipRemoval"
    /\ chipDestroyed[1] = 1
    /\ Len(chips_) >= 1
    /\ chips_[1].obj = 2
    /\ chipDestroyed[2] = 0

(***************************************************************************)
(* Claims about the construction of a component.                           *)
(***************************************************************************)

\* The methods a complete constructor call has invoked, in order.
ConstructionCalls(given) ==
    <<"initialize">>
    \o (IF given THEN <<>> ELSE <<"getDefaultFoundation">>)
    \o <<"foundation_.init", "initialSyncWithDOM">>

C40_QueuedSelectionNotifiedOnce ==
    [][/\ smSel' # smSel => smSel'.op \in {"click", "keyup", "selectedTrigger"}
       /\ smSel'.op \in {"click", "keyup"}
            => LET evt == smSel'.evt
                   selecting ==
                       \/ evt.type = "click"
                       \/ /\ evt.type = "keyup" /\ ~evt.ctrlKey
                          /\ \/ evt.key \in {"Enter", "Space"}
                             \/ evt.keyCode \in {13, 32} IN
               /\ smSel'.calls \in {<<>>, <<"notifyCancel">>}
               /\ smSel'.queued =
                     (IF smSel.queued # <<>> THEN smSel.queued
                      ELSE IF selecting /\ smSel'.target >= 0
                           THEN <<smSel'.target>> ELSE <<>>)
       /\ (smSel'.op = "selectedTrigger" /\ smSel' # smSel)
            => /\ smSel.queued # <<>>
               /\ smSel'.calls = <<"notifySelected", smSel.queued[1]>>
               /\ smSel'.queued = <<>>]_vars

\* C40 witness: a keyup of Enter on the second item while the selection of the
\* first item is queued; the first item's stays the queued one.
C40_Witness ==
    /\ smSel.op = "keyup"
    /\ smSel.evt.key = "Enter" /\ ~smSel.evt.ctrlKey
    /\ smSel.target = 1
    /\ smSel.queued = <<0>>

====
